---------------------------- MODULE Spec2Model ----------------------------
(***************************************************************************)
(* A model of mp3cat: the mp3lib byte-stream scanner and frame-header      *)
(* decoder (src/mp3lib/mp3lib.go), and the merge program built on it       *)
(* (src/mp3cat.go, with the template-based addXingHeader of                *)
(* src/mp3cat/mp3cat.go that matches the in-tree mp3lib).                  *)
(*                                                                         *)
(* Files are sequences of bytes (0..255).  A stream offset is the number   *)
(* of bytes already consumed, so byte k of a stream is data[k + 1].        *)
(***************************************************************************)
EXTENDS Integers, Sequences, FiniteSets, TLC

(***************************************************************************)
(* Enumerations of mp3lib.go.                                              *)
(***************************************************************************)
MPEGVersion2_5 == 0
MPEGVersionReserved == 1
MPEGVersion2 == 2
MPEGVersion1 == 3

MPEGLayerReserved == 0
MPEGLayerIII == 1
MPEGLayerII == 2
MPEGLayerI == 3

Stereo == 0
JointStereo == 1
DualChannel == 2
Mono == 3

\* Bit rate tables, in kbps, indexed by the 4-bit bit-rate index (+1).
v1l1_br == <<0, 32, 64, 96, 128, 160, 192, 224, 256, 288, 320, 352, 384, 416, 448>>
v1l2_br == <<0, 32, 48, 56, 64, 80, 96, 112, 128, 160, 192, 224, 256, 320, 384>>
v1l3_br == <<0, 32, 40, 48, 56, 64, 80, 96, 112, 128, 160, 192, 224, 256, 320>>
v2l1_br == <<0, 32, 48, 56, 64, 80, 96, 112, 128, 144, 160, 176, 192, 224, 256>>
v2l2_br == <<0, 8, 16, 24, 32, 40, 48, 56, 64, 80, 96, 112, 128, 144, 160>>
v2l3_br == <<0, 8, 16, 24, 32, 40, 48, 56, 64, 80, 96, 112, 128, 144, 160>>

\* Sampling rate tables, indexed by the 2-bit sampling-rate index (+1).
v1_sr == <<44100, 48000, 32000>>
v2_sr == <<22050, 24000, 16000>>
v25_sr == <<11025, 12000, 8000>>

(***************************************************************************)
(* Helpers on bytes and byte sequences.                                    *)
(***************************************************************************)
Byte == 0..255

\* s[from:to] of Go, with 0-based offsets, from <= to <= len(s).
Slice(s, from, to) == SubSeq(s, from + 1, to)

\* Bitwise OR of two naturals.
RECURSIVE BitOr(_, _)
BitOr(a, b) ==
    IF a = 0 THEN b
    ELSE IF b = 0 THEN a
    ELSE (IF (a % 2 = 1) \/ (b % 2 = 1) THEN 1 ELSE 0)
         + 2 * BitOr(a \div 2, b \div 2)

(***************************************************************************)
(* uint32.  TLC's integers are 32-bit signed, so a uint32 is kept as its   *)
(* two 16-bit halves << high, low >>: the value is high * 65536 + low.     *)
(***************************************************************************)
\* The uint32 of a natural number below 2^31.
U32(n) == << (n \div 65536) % 65536, n % 65536 >>

\* A faulty addition that loses the carry out of the low half.
U32AddNoCarry(a, n) ==
    << (a[1] + (n \div 65536)) % 65536, (a[2] + (n % 65536)) % 65536 >>

\* uint32 addition of a natural number below 2^31: wraps at 2^32.
U32Add(a, n) ==
    LET low == a[2] + (n % 65536)
        high == a[1] + (n \div 65536) + (low \div 65536)
    IN  << high % 65536, low % 65536 >>

\* An exact count kept in three 16-bit parts << top, high, low >>, for the
\* history of what was really written: top * 2^32 + high * 65536 + low.
Wide(n) == << 0, (n \div 65536) % 65536, n % 65536 >>

WideAdd(w, n) ==
    LET low == w[3] + (n % 65536)
        high == w[2] + (n \div 65536) + (low \div 65536)
    IN  << w[1] + (high \div 65536), high % 65536, low % 65536 >>

\* The count modulo 2^32, as a uint32.
Low32(w) == << w[2], w[3] >>

\* binary.BigEndian.PutUint32: the four bytes of a uint32.
BigEndian32(v) == << v[1] \div 256, v[1] % 256, v[2] \div 256, v[2] % 256 >>

\* ASCII signatures.
AsciiXing == <<88, 105, 110, 103>>
AsciiInfo == <<73, 110, 102, 111>>
AsciiVBRI == <<86, 66, 82, 73>>

(***************************************************************************)
(* parseHeader: decode a 4-byte window as a frame header.  Returns         *)
(* [ok |-> FALSE] when a field is invalid, otherwise the decoded frame     *)
(* (RawBytes still empty: the scanner fills it).                           *)
(***************************************************************************)
NoFrame == [ok |-> FALSE]

\* A faulty lookup that takes the Layer II table for Layer III of MPEG1.
BitRateOfLayerII(version, layer, bitRateIndex) ==
    IF version = MPEGVersion1
    THEN CASE layer = MPEGLayerI -> v1l1_br[bitRateIndex + 1] * 1000
           [] layer = MPEGLayerII -> v1l2_br[bitRateIndex + 1] * 1000
           [] layer = MPEGLayerIII -> v1l2_br[bitRateIndex + 1] * 1000
    ELSE CASE layer = MPEGLayerI -> v2l1_br[bitRateIndex + 1] * 1000
           [] layer = MPEGLayerII -> v2l2_br[bitRateIndex + 1] * 1000
           [] layer = MPEGLayerIII -> v2l3_br[bitRateIndex + 1] * 1000

BitRateOf(version, layer, bitRateIndex) ==
    IF version = MPEGVersion1
    THEN CASE layer = MPEGLayerI -> v1l1_br[bitRateIndex + 1] * 1000
           [] layer = MPEGLayerII -> v1l2_br[bitRateIndex + 1] * 1000
           [] layer = MPEGLayerIII -> v1l3_br[bitRateIndex + 1] * 1000
    ELSE CASE layer = MPEGLayerI -> v2l1_br[bitRateIndex + 1] * 1000
           [] layer = MPEGLayerII -> v2l2_br[bitRateIndex + 1] * 1000
           [] layer = MPEGLayerIII -> v2l3_br[bitRateIndex + 1] * 1000

\* A faulty rate that reads the table of MPEG1 for every version.
SamplingRateOfMPEG1(version, samplingRateIndex) == v1_sr[samplingRateIndex + 1]

SamplingRateOf(version, samplingRateIndex) ==
    CASE version = MPEGVersion1 -> v1_sr[samplingRateIndex + 1]
      [] version = MPEGVersion2 -> v2_sr[samplingRateIndex + 1]
      [] version = MPEGVersion2_5 -> v25_sr[samplingRateIndex + 1]

\* A faulty count that gives Layer III 1152 samples in every version.
SampleCountOfMPEG1(version, layer) ==
    CASE layer = MPEGLayerI -> 384
      [] layer = MPEGLayerII -> 1152
      [] layer = MPEGLayerIII -> 1152

SampleCountOf(version, layer) ==
    IF version = MPEGVersion1
    THEN CASE layer = MPEGLayerI -> 384
           [] layer = MPEGLayerII -> 1152
           [] layer = MPEGLayerIII -> 1152
    ELSE CASE layer = MPEGLayerI -> 384
           [] layer = MPEGLayerII -> 1152
           [] layer = MPEGLayerIII -> 576

PaddingOf(layer, paddingBit) ==
    IF paddingBit
    THEN (IF layer = MPEGLayerI THEN 4 ELSE 1)
    ELSE 0

parseHeader(header) ==
    LET version == (header[2] \div 8) % 4
        layer == (header[2] \div 2) % 4
        bitRateIndex == header[3] \div 16
        samplingRateIndex == (header[3] \div 4) % 4
        paddingBit == (header[3] \div 2) % 2 = 1
        channelMode == header[4] \div 64
        modeExtension == (header[4] \div 16) % 4
        emphasis == header[4] % 4
        bitRate == BitRateOf(version, layer, bitRateIndex)
        samplingRate == SamplingRateOf(version, samplingRateIndex)
        sampleCount == SampleCountOf(version, layer)
    IN  IF version = MPEGVersionReserved THEN NoFrame
        ELSE IF layer = MPEGLayerReserved THEN NoFrame
        ELSE IF bitRateIndex = 0 \/ bitRateIndex = 15 THEN NoFrame
        ELSE IF samplingRateIndex = 3 THEN NoFrame
        ELSE IF channelMode # JointStereo /\ modeExtension # 0 THEN NoFrame
        ELSE IF emphasis = 2 THEN NoFrame
        ELSE [ ok |-> TRUE,
               RawBytes |-> << >>,
               MPEGVersion |-> version,
               MPEGLayer |-> layer,
               CrcProtection |-> (header[2] % 2 = 0),
               BitRate |-> bitRate,
               SamplingRate |-> samplingRate,
               PaddingBit |-> paddingBit,
               PrivateBit |-> (header[3] % 2 = 1),
               ChannelMode |-> channelMode,
               ModeExtension |-> modeExtension,
               CopyrightBit |-> ((header[4] \div 8) % 2 = 1),
               OriginalBit |-> ((header[4] \div 4) % 2 = 1),
               Emphasis |-> emphasis,
               SampleCount |-> sampleCount,
               FrameLength |->
                   ((sampleCount \div 8) * bitRate) \div samplingRate
                   + PaddingOf(layer, paddingBit) ]

\* A faulty size that takes the sizes of MPEG1 for every version.
getSideInfoSizeMPEG1(frame) ==
    IF frame.MPEGLayer = MPEGLayerIII
    THEN (IF frame.ChannelMode = Mono THEN 17 ELSE 32)
    ELSE 0

\* getSideInfoSize: the length of the side information block of a frame.
getSideInfoSize(frame) ==
    IF frame.MPEGLayer = MPEGLayerIII
    THEN IF frame.MPEGVersion = MPEGVersion1
         THEN (IF frame.ChannelMode = Mono THEN 17 ELSE 32)
         ELSE (IF frame.ChannelMode = Mono THEN 9 ELSE 17)
    ELSE 0

(***************************************************************************)
(* The scanner.  A stream is (data, limit, pos): the file's bytes, the     *)
(* offset at which reading stops (the end of the file, or the offset of a  *)
(* read error: fillBuffer and the one-byte Read drop the error and see     *)
(* only a short count), and the number of bytes consumed so far.           *)
(***************************************************************************)
Nil(limit) == [kind |-> "nil", pos |-> limit]

\* A faulty fillBuffer that does not look at the count ReadFull returned.
fillBufferAlways(limit, pos, n) == TRUE

\* fillBuffer: can n more bytes be read at offset pos?
fillBuffer(limit, pos, n) == pos + n <= limit

\* io.ReadFull into a zeroed buffer of n bytes at offset pos: the bytes the
\* buffer holds afterwards (those the stream still had, then the zeros).
ReadFull(data, limit, pos, n) ==
    LET left == IF pos >= limit THEN 0
                ELSE IF limit - pos < n THEN limit - pos ELSE n
    IN  Slice(data, pos, pos + left) \o [i \in 1..(n - left) |-> 0]

\* stream.Read(lastByte): one more byte is read at offset pos (n >= 1).
ReadByte(limit, pos) == pos < limit

\* A faulty shift that drops two bytes of the window.
ShiftTwo(p) == p + 2

\* The window moves forward by one byte.
Shift(p) == p + 1

\* The 11-bit frame sync: buffer[0] == 0xFF && (buffer[1] & 0xE0) == 0xE0.
FrameSync(buffer) == buffer[1] = 255 /\ buffer[2] \div 32 = 7

\* A faulty length that takes the size bytes as whole bytes (shifts of 8).
ID3v2LengthShift8(remainder) ==
    BitOr(BitOr(remainder[3] * 16777216, remainder[4] * 65536),
          BitOr(remainder[5] * 256, remainder[6]))

\* The ID3v2 length: the four size bytes shifted by 21, 14, 7 and 0 and OR-ed.
ID3v2Length(remainder) ==
    BitOr(BitOr(remainder[3] * 2097152, remainder[4] * 16384),
          BitOr(remainder[5] * 128, remainder[6]))

\* The body of NextObject's loop with the 4-byte window at offset p
\* (the stream has been consumed up to p + 4).
RECURSIVE ScanWindow(_, _, _)
ScanWindow(data, limit, p) ==
    LET buffer == ReadFull(data, limit, p, 4)
        header == parseHeader(buffer)
    IN  IF buffer[1] = 84 /\ buffer[2] = 65 /\ buffer[3] = 71
        THEN \* 'TAG': an ID3v1 tag of 128 bytes.
             IF fillBuffer(limit, p + 4, 124)
             THEN [kind |-> "id3v1", pos |-> p + 128,
                   RawBytes |-> buffer \o ReadFull(data, limit, p + 4, 124)]
             ELSE Nil(limit)
        ELSE IF buffer[1] = 73 /\ buffer[2] = 68 /\ buffer[3] = 51
        THEN \* 'ID3': an ID3v2 tag, 10 bytes of header and the tag's length.
             IF ~fillBuffer(limit, p + 4, 6) THEN Nil(limit)
             ELSE LET remainder == ReadFull(data, limit, p + 4, 6)
                      length == ID3v2Length(remainder)
                  IN  IF fillBuffer(limit, p + 10, length)
                      THEN [kind |-> "id3v2", pos |-> p + 10 + length,
                            RawBytes |-> buffer \o remainder
                                         \o ReadFull(data, limit, p + 10, length)]
                      ELSE Nil(limit)
        ELSE IF FrameSync(buffer) /\ header.ok
        THEN \* A frame: the header and FrameLength - 4 more bytes.
             IF fillBuffer(limit, p + 4, header.FrameLength - 4)
             THEN [kind |-> "frame", pos |-> p + header.FrameLength,
                   frame |-> [header EXCEPT !.RawBytes =
                       buffer \o ReadFull(data, limit, p + 4, header.FrameLength - 4)]]
             ELSE Nil(limit)
        ELSE \* Nothing found: shift the window by one byte.
             IF ReadByte(limit, p + 4)
             THEN ScanWindow(data, limit, Shift(p))
             ELSE Nil(limit)

\* NextObject: the next recognised object of the stream, or nil.
NextObject(data, limit, pos) ==
    IF fillBuffer(limit, pos, 4)
    THEN ScanWindow(data, limit, pos)
    ELSE Nil(limit)

\* NextFrame: the next frame of the stream, skipping tags, or nil.
RECURSIVE NextFrame(_, _, _)
NextFrame(data, limit, pos) ==
    LET obj == NextObject(data, limit, pos)
    IN  CASE obj.kind = "frame" -> obj
          [] obj.kind = "id3v1" -> NextFrame(data, limit, obj.pos)
          [] obj.kind = "id3v2" -> NextFrame(data, limit, obj.pos)
          [] obj.kind = "nil" -> obj

\* NextID3v2Tag: the stream's first object if it is an ID3v2 tag, else nil.
NextID3v2Tag(data, limit, pos) ==
    LET obj == NextObject(data, limit, pos)
    IN  IF obj.kind = "id3v2" THEN obj ELSE Nil(limit)

(***************************************************************************)
(* VBR signatures.  A Go slice expression past the end of RawBytes panics, *)
(* so each check answers "true", "false" or "panic".                       *)
(***************************************************************************)
IsXingHeader(frame) ==
    LET offset == 4 + getSideInfoSize(frame)
    IN  IF offset + 4 > Len(frame.RawBytes) THEN "panic"
        ELSE LET id == Slice(frame.RawBytes, offset, offset + 4)
             IN  IF id = AsciiXing \/ id = AsciiInfo THEN "true" ELSE "false"

IsVbriHeader(frame) ==
    IF 36 + 4 > Len(frame.RawBytes) THEN "panic"
    ELSE IF Slice(frame.RawBytes, 36, 36 + 4) = AsciiVBRI THEN "true" ELSE "false"

\* The condition of merge's first-frame check: a || b evaluates b only
\* when a is false.
IsVbrHeaderFrame(frame) ==
    LET xing == IsXingHeader(frame)
    IN  IF xing = "false" THEN IsVbriHeader(frame) ELSE xing

(***************************************************************************)
(* NewXingHeader: a zeroed frame of the template's length carrying the     *)
(* template's header, "Xing", the flags byte and the two totals.  An index *)
(* past the end of the new buffer panics: [ok |-> FALSE].                  *)
(***************************************************************************)
NewXingHeader(template, totalFrames, totalBytes) ==
    LET offset == 4 + getSideInfoSize(template)
        n == template.FrameLength
        frames == BigEndian32(totalFrames)
        bytes == BigEndian32(totalBytes)
        raw == [i \in 1..n |->
                  IF i <= 4 THEN template.RawBytes[i]
                  ELSE IF i > offset /\ i <= offset + 4 THEN AsciiXing[i - offset]
                  ELSE IF i = offset + 7 + 1 THEN 3
                  ELSE IF i > offset + 8 /\ i <= offset + 12 THEN frames[i - offset - 8]
                  ELSE IF i > offset + 12 /\ i <= offset + 16 THEN bytes[i - offset - 12]
                  ELSE 0]
    IN  IF offset + 16 > n
        THEN [ok |-> FALSE]
        ELSE [ok |-> TRUE, frame |-> [template EXCEPT !.RawBytes = raw]]

(***************************************************************************)
(* Input data of the model: a small file system of MP3 files built from    *)
(* real frame headers, and the command lines main is run with.             *)
(***************************************************************************)
\* MPEG2 Layer III, 16 kbps, 24000 Hz, mono: 48 bytes.
Hdr16 == <<255, 243, 36, 192>>
\* MPEG2.5 Layer III, 8 kbps, 12000 Hz, mono: 48 bytes.
Hdr8 == <<255, 227, 20, 192>>
\* MPEG2 Layer III, 8 kbps, 24000 Hz, mono: 24 bytes.
HdrShort == <<255, 243, 20, 192>>

\* A frame with the given header whose body bytes all equal fill.
MkFrame(hdr, fill) == hdr \o [i \in 1..(parseHeader(hdr).FrameLength - 4) |-> fill]

\* The bytes with sig written at the 0-based offset.
WithSig(bytes, offset, sig) ==
    [i \in 1..Len(bytes) |->
        IF i > offset /\ i <= offset + Len(sig) THEN sig[i - offset] ELSE bytes[i]]

\* An ID3v2 tag declaring one byte of content.
SmallTag == <<73, 68, 51, 3, 0, 0, 0, 0, 0, 1, 42>>

PathA == "a.mp3"
PathB == "b.mp3"
PathX == "x.mp3"
PathS == "s.mp3"
PathT == "t.mp3"
PathOut == "out.mp3"
\* A path at which no file exists.
PathNone == "none.mp3"

\* A faulty rewrite that builds the new content in the file itself.
TmpPathInPlace(path) == path

\* The temporary file of a rewrite of the file at path.
TmpPath(path) == path \o ".mp3cat.tmp"

\* a.mp3: a tag, two 16 kbps frames with garbage between them.
DataA == SmallTag \o MkFrame(Hdr16, 1) \o <<0, 255>> \o MkFrame(Hdr16, 2)
\* b.mp3: one 8 kbps frame and a truncated second frame.
DataB == MkFrame(Hdr8, 3) \o Hdr8 \o <<4, 4>>
\* x.mp3: a VBRI header frame, a 16 kbps frame, then an Info frame.
DataX == WithSig(MkFrame(Hdr16, 5), 36, AsciiVBRI) \o MkFrame(Hdr16, 6)
         \o WithSig(MkFrame(Hdr16, 7), 13, AsciiInfo)
\* s.mp3: a 24-byte Xing header frame, a 24-byte frame and a 16 kbps frame.
DataS == WithSig(MkFrame(HdrShort, 8), 13, AsciiXing) \o MkFrame(HdrShort, 9)
         \o MkFrame(Hdr16, 10)
\* t.mp3: a 24-byte first frame that is no Xing header.
DataT == MkFrame(HdrShort, 11)
\* What an earlier run left at the output path, and at the temporary path.
DataOld == MkFrame(Hdr8, 12)
DataTmp == MkFrame(Hdr16, 13)

InputFS ==
    [p \in {PathA, PathB, PathX, PathS, PathT} |->
        CASE p = PathA -> DataA
          [] p = PathB -> DataB
          [] p = PathX -> DataX
          [] p = PathS -> DataS
          [] p = PathT -> DataT]

\* The paths a command line may name.
ArgPaths == {PathA, PathB, PathX, PathS, PathT, PathOut, TmpPath(PathOut)}

\* The longest list of files on a command line.
MaxFiles == 2

\* The number of I/O operations the environment may fail in one run.
MaxIOFailures == 1

ArgLists == UNION {[1..n -> ArgPaths] : n \in 0..MaxFiles}

\* --copy-meta: not given (-1 here), or an integer.
CopyMetaValues == {-1} \cup (0..(MaxFiles + 1))

\* --interlace: not given (""), or the path of a spacer, which may be missing.
SpacerValues == {"", PathB, PathNone}

\* --set-meta: not given, a well-formed list of pairs, or a malformed one.
SetMetaValues == {"none", "pairs", "malformed"}

(***************************************************************************)
(* The state of one run of the program.                                    *)
(***************************************************************************)
VARIABLES
    pc,            \* the next step of the program
    fs,            \* the file system: existing path -> content
    files,         \* main: the list of files to merge (merge: inpaths)
    outpath,       \* --out
    tagpath,       \* the file to copy the ID3v2 tag from, or ""
    tags,          \* TRUE when --set-meta gave tags to apply
    force,         \* --force
    idx,           \* merge: the index of the current input file
    inpos,         \* merge: the offset reached in the current input file
    isFirstFrame,  \* merge: no frame of the current input was read yet
    firstBitRate,  \* merge: the bit rate of the first frame kept, or 0
    isVBR,         \* merge: more than one bit rate was seen
    totalFrames,   \* merge: uint32 count of the frames written
    totalBytes,    \* merge: uint32 count of the bytes written
    totalFiles,    \* merge: the number of inputs read to their end
    prefix,        \* rewrite: the bytes to put in front (Xing frame or tag)
    yielded,       \* history: every frame NextFrame returned to merge
    written,       \* history: the exact number of bytes merge wrote to the output
    nwritten,      \* history: the exact number of frames merge wrote
    steps,         \* history: the finalizer steps completed, in order
    fs0,           \* history: the file system when the program started
    faults,        \* history: the I/O operations the environment failed
    before,        \* history: the output file when the current rewrite began
    passOut,       \* history: the output file when the pass ended
    exitAt,        \* history: the step at which the program stopped, or ""
    cmdline,       \* history: the command line main parsed
    stream,        \* library: the byte stream handed to the scanner
    parts,         \* library: history, the pieces the stream was made of
    objects        \* library: what the library calls returned, in order

vars == << pc, fs, files, outpath, tagpath, tags, force, idx, inpos,
           isFirstFrame, firstBitRate, isVBR, totalFrames, totalBytes,
           totalFiles, prefix, yielded, written, nwritten, steps, fs0, faults,
           before, passOut, exitAt, cmdline, stream, parts, objects >>

\* The variables of the specifications of the library alone.
libVars == << stream, parts, objects >>

\* The command line before main has run.
NoCmdline == [args |-> << >>, copyMeta |-> -1, spacer |-> "", setMeta |-> "none"]

cmdVars == << files, outpath, tagpath, tags, force, cmdline >>
mergeVars == << idx, inpos, isFirstFrame, firstBitRate, isVBR, totalFrames,
                totalBytes, totalFiles >>
histVars == << yielded, written, nwritten, steps, fs0, before, passOut >>

Exists(path) == path \in DOMAIN fs

\* os.Create: the file exists and is empty.
Create(path) == [p \in DOMAIN fs \cup {path} |-> IF p = path THEN << >> ELSE fs[p]]

\* Replace the content of an existing file.
Store(path, data) == [fs EXCEPT ![path] = data]

\* os.Remove.
Remove(path) == [p \in DOMAIN fs \ {path} |-> fs[p]]

\* A faulty rename that leaves the file at from in place.
RenameKeepsSource(from, to) ==
    [p \in DOMAIN fs \cup {to} |-> IF p = to THEN fs[from] ELSE fs[p]]

\* os.Rename: the file at from replaces whatever is at to.
Rename(from, to) ==
    [p \in (DOMAIN fs \ {from}) \cup {to} |-> IF p = to THEN fs[from] ELSE fs[p]]

\* The environment may fail one more I/O operation.
MayFail == Len(faults) < MaxIOFailures

\* The program stops at the current step: os.Exit(1), or a runtime panic.
Stop(how) == pc' = how /\ exitAt' = pc

\* The environment fails the I/O operation op of the current step.
Fail(op) == faults' = Append(faults, [op |-> op, at |-> pc])

\* What a failed write may leave behind: nothing, or half of the bytes.
Partial(bytes) == {SubSeq(bytes, 1, k) : k \in {0, Len(bytes) \div 2}}

\* The file systems a run may start in.
InitialFS == { InputFS,
               (PathOut :> DataOld) @@ InputFS,
               (PathOut :> DataOld) @@ (TmpPath(PathOut) :> DataTmp) @@ InputFS }

Init ==
    /\ pc = "main"
    /\ fs \in InitialFS
    /\ fs0 = fs
    /\ files = << >>
    /\ outpath = ""
    /\ tagpath = ""
    /\ tags = FALSE
    /\ force = FALSE
    /\ idx = 0
    /\ inpos = 0
    /\ isFirstFrame = FALSE
    /\ firstBitRate = 0
    /\ isVBR = FALSE
    /\ totalFrames = U32(0)
    /\ totalBytes = U32(0)
    /\ totalFiles = 0
    /\ prefix = << >>
    /\ yielded = << >>
    /\ written = Wide(0)
    /\ nwritten = Wide(0)
    /\ steps = << >>
    /\ faults = << >>
    /\ before = << >>
    /\ passOut = << >>
    /\ exitAt = ""
    /\ cmdline = NoCmdline
    /\ stream = << >>
    /\ parts = << >>
    /\ objects = << >>

(***************************************************************************)
(* main: the command line is parsed and validated, then merge is called.   *)
(***************************************************************************)
\* interlace: the spacer between each two files of the list.
RECURSIVE interlace(_, _)
interlace(list, spacer) ==
    IF Len(list) <= 1 THEN list
    ELSE << Head(list), spacer >> \o interlace(Tail(list), spacer)

\* A faulty check that also rejects the last file of the list.
CopyMetaInvalidLast(n, list) == n - 1 < 0 \/ n - 1 >= Len(list) - 1

\* The --copy-meta check: n is rejected when n - 1 < 0 or n - 1 > len - 1.
CopyMetaInvalid(n, list) == n - 1 < 0 \/ n - 1 > Len(list) - 1

\* A faulty check that looks at the first file of the list only.
validateFilesFirst(list) == list = << >> \/ Exists(list[1])

\* validateFiles: every file of the list exists.
validateFiles(list) == \A i \in 1..Len(list) : Exists(list[i])

Main ==
    /\ pc = "main"
    /\ \E args \in ArgLists, copyMeta \in CopyMetaValues, spacer \in SpacerValues,
          setMeta \in SetMetaValues, f \in BOOLEAN, out \in {PathOut} :
         LET found == copyMeta # -1
             parsed == /\ args # << >>
                       /\ ~(found /\ CopyMetaInvalid(copyMeta, args))
                       /\ setMeta # "malformed"
             list == IF spacer # "" THEN interlace(args, spacer) ELSE args
         IN  /\ files' = (IF parsed THEN list ELSE args)
             /\ tagpath' = (IF args # << >> /\ found /\ ~CopyMetaInvalid(copyMeta, args)
                            THEN args[copyMeta] ELSE "")
             /\ tags' = (setMeta = "pairs")
             /\ force' = f
             /\ outpath' = out
             /\ cmdline' = [args |-> args, copyMeta |-> copyMeta, spacer |-> spacer,
                             setMeta |-> setMeta]
             /\ IF parsed /\ validateFiles(list)
                THEN pc' = "merge" /\ UNCHANGED exitAt
                ELSE Stop("exit1")
    /\ UNCHANGED << fs, mergeVars, prefix, histVars, faults, libVars >>

(***************************************************************************)
(* merge: the checks before the output file is created.                    *)
(***************************************************************************)
\* A faulty test that refuses to overwrite when --force is given.
RefusesOverwriteInverted(exists, f) == exists /\ f

\* merge refuses to overwrite: the output file exists and --force is not set.
RefusesOverwrite(exists, f) == exists /\ ~f

\* A faulty collision test that looks at the first input only.
CollidesFirst(inpaths, out) == inpaths # << >> /\ inpaths[1] = out

\* The list of input files includes the output file.
Collides(inpaths, out) == \E i \in 1..Len(inpaths) : inpaths[i] = out

MergeStart ==
    /\ pc = "merge"
    /\ IF RefusesOverwrite(Exists(outpath), force)
       THEN \* the file already exists
            /\ Stop("exit1")
            /\ UNCHANGED << fs, faults, idx >>
       ELSE IF Collides(files, outpath)
       THEN /\ Stop("exit1")
            /\ UNCHANGED << fs, faults, idx >>
       ELSE \/ /\ fs' = Create(outpath)
               /\ idx' = 1
               /\ pc' = "open"
               /\ UNCHANGED << faults, exitAt >>
            \/ \* os.Create fails
               /\ MayFail
               /\ Fail("create")
               /\ Stop("exit1")
               /\ UNCHANGED << fs, idx >>
    /\ UNCHANGED << cmdVars, libVars, inpos, isFirstFrame, firstBitRate, isVBR,
                    totalFrames, totalBytes, totalFiles, prefix, histVars >>

(***************************************************************************)
(* merge: the loop over the input files.                                   *)
(***************************************************************************)
OpenInput ==
    /\ pc = "open"
    /\ idx <= Len(files)
    /\ \/ /\ Exists(files[idx])
          /\ inpos' = 0
          /\ isFirstFrame' = TRUE
          /\ pc' = "frame"
          /\ UNCHANGED << faults, exitAt >>
       \/ \* os.Open fails
          /\ MayFail
          /\ Fail("open")
          /\ Stop("exit1")
          /\ UNCHANGED << inpos, isFirstFrame >>
    /\ UNCHANGED << fs, cmdVars, libVars, idx, firstBitRate, isVBR, totalFrames,
                    totalBytes, totalFiles, prefix, histVars >>

\* A faulty bookkeeping that lets a later frame clear the flag.
TrackBitRateLast(first, vbr, bitRate) ==
    IF first = 0 THEN << bitRate, vbr >>
    ELSE << first, bitRate # first >>

\* The bit-rate bookkeeping of one kept frame: << firstBitRate, isVBR >>.
TrackBitRate(first, vbr, bitRate) ==
    IF first = 0 THEN << bitRate, vbr >>
    ELSE IF bitRate # first THEN << first, TRUE >>
    ELSE << first, vbr >>

\* A faulty count that sets totalBytes to the length of the last frames.
CountFramesAssign(frames, bytes, len, n) == << U32Add(frames, n), U32(n * len) >>

\* The totals after n more frames of len bytes each: n times
\* totalFrames++ and totalBytes += uint32(len): << totalFrames, totalBytes >>.
CountFrames(frames, bytes, len, n) == << U32Add(frames, n), U32Add(bytes, n * len) >>

\* A faulty write that appends the frame without its 4-byte header.
WriteBytesNoHeader(content, bytes) == content \o Slice(bytes, 4, Len(bytes))

\* outfile.Write: the bytes are appended to the file.
WriteBytes(content, bytes) == content \o bytes

\* The end of one input: infile.Close(), totalFiles++.
EndInput ==
    /\ totalFiles' = totalFiles + 1
    /\ idx' = idx + 1
    /\ pc' = "open"
    /\ UNCHANGED << fs, inpos, isFirstFrame, firstBitRate, isVBR, totalFrames,
                    totalBytes, histVars, exitAt >>

\* A faulty check that tests every frame, not only the first of an input.
SkipCheckAnywhere(first, frame) == IsVbrHeaderFrame(frame)

\* The first-frame check: only the first frame of an input is tested.
SkipCheck(first, frame) == IF first THEN IsVbrHeaderFrame(frame) ELSE "false"

\* One iteration of the frame loop on the object NextFrame returned.
HandleFrame(obj) ==
    LET frame == obj.frame
        check == SkipCheck(isFirstFrame, frame)
        rate == TrackBitRate(firstBitRate, isVBR, frame.BitRate)
    IN  IF check = "panic"
        THEN /\ Stop("panic")
             /\ UNCHANGED << fs, mergeVars, histVars, faults >>
        ELSE IF check = "true"
        THEN \* the first frame is a VBR header: skipped
             /\ isFirstFrame' = FALSE
             /\ inpos' = obj.pos
             /\ yielded' = Append(yielded, [input |-> idx, frame |-> frame, kept |-> FALSE])
             /\ UNCHANGED << pc, fs, idx, firstBitRate, isVBR, totalFrames, totalBytes,
                             totalFiles, written, nwritten, steps, fs0, before,
                             passOut, faults, exitAt >>
        ELSE /\ isFirstFrame' = FALSE
             /\ inpos' = obj.pos
             /\ firstBitRate' = rate[1]
             /\ isVBR' = rate[2]
             /\ \/ /\ fs' = Store(outpath, WriteBytes(fs[outpath], frame.RawBytes))
                   /\ totalFrames' = CountFrames(totalFrames, totalBytes, Len(frame.RawBytes), 1)[1]
                   /\ totalBytes' = CountFrames(totalFrames, totalBytes, Len(frame.RawBytes), 1)[2]
                   /\ yielded' = Append(yielded, [input |-> idx, frame |-> frame, kept |-> TRUE])
                   /\ written' = WideAdd(written, Len(frame.RawBytes))
                   /\ nwritten' = WideAdd(nwritten, 1)
                   /\ UNCHANGED << pc, faults, exitAt >>
                \/ \* outfile.Write fails
                   /\ MayFail
                   /\ \E part \in Partial(frame.RawBytes) :
                        /\ fs' = Store(outpath, fs[outpath] \o part)
                        /\ written' = WideAdd(written, Len(part))
                   /\ yielded' = Append(yielded, [input |-> idx, frame |-> frame, kept |-> TRUE])
                   /\ Fail("write")
                   /\ Stop("exit1")
                   /\ UNCHANGED << totalFrames, totalBytes, nwritten >>
             /\ UNCHANGED << idx, totalFiles, steps, fs0, before, passOut >>

ReadFrame ==
    /\ pc = "frame"
    /\ \/ LET data == fs[files[idx]]
              obj == NextFrame(data, Len(data), inpos)
          IN  IF obj.kind = "nil"
              THEN EndInput /\ UNCHANGED faults
              ELSE HandleFrame(obj)
       \/ \* a read fails: fillBuffer reports a short read, NextFrame returns nil
          /\ MayFail
          /\ inpos < Len(fs[files[idx]])
          /\ Fail("read")
          /\ EndInput
    /\ UNCHANGED << cmdVars, libVars, prefix >>

\* A faulty order: the VBR-header rewrite without the test of isVBR.
FollowingAlwaysXing(step) ==
    CASE step = "pass" -> "xing_create"
      [] step = "xing" -> "tagstep"
      [] step = "tag" -> "metastep"
      [] step = "meta" -> "done"

\* A faulty order: the tag step before the VBR-header step.
FollowingTagFirst(step) ==
    CASE step = "pass" -> "tagstep"
      [] step = "tag" -> "finalize"
      [] step = "xing" -> "metastep"
      [] step = "meta" -> "done"

\* The order of merge's statements after the loop: the label that follows
\* the concatenation pass, the VBR-header step and the tag step.
Following(step) ==
    CASE step = "pass" -> "finalize"
      [] step = "xing" -> "tagstep"
      [] step = "tag" -> "metastep"
      [] step = "meta" -> "done"

\* After the last input: outfile.Close().
EndPass ==
    /\ pc = "open"
    /\ idx > Len(files)
    /\ pc' = Following("pass")
    /\ passOut' = fs[outpath]
    /\ UNCHANGED << fs, cmdVars, libVars, mergeVars, prefix, yielded, written, nwritten,
                    steps, fs0, before, faults, exitAt >>

(***************************************************************************)
(* The rewrite both finalizer steps perform on the output file: create     *)
(* the temporary file, open the output, write the new first bytes, copy    *)
(* the output after them, remove the output, rename the temporary file.    *)
(***************************************************************************)
RwCreate(at, next) ==
    /\ pc = at
    /\ \/ /\ fs' = Create(TmpPath(outpath))
          /\ pc' = next
          /\ UNCHANGED << faults, exitAt >>
       \/ /\ MayFail
          /\ Fail("create")
          /\ Stop("exit1")
          /\ UNCHANGED fs
    /\ UNCHANGED << cmdVars, libVars, mergeVars, prefix, histVars >>

RwOpen(at, next) ==
    /\ pc = at
    /\ \/ /\ Exists(outpath)
          /\ pc' = next
          /\ UNCHANGED << faults, exitAt >>
       \/ /\ MayFail
          /\ Fail("open")
          /\ Stop("exit1")
    /\ UNCHANGED << fs, cmdVars, libVars, mergeVars, prefix, histVars >>

RwWrite(at, next) ==
    /\ pc = at
    /\ \/ /\ fs' = Store(TmpPath(outpath), WriteBytes(fs[TmpPath(outpath)], prefix))
          /\ pc' = next
          /\ UNCHANGED << faults, exitAt >>
       \/ /\ MayFail
          /\ \E part \in Partial(prefix) :
               fs' = Store(TmpPath(outpath), fs[TmpPath(outpath)] \o part)
          /\ Fail("write")
          /\ Stop("exit1")
    /\ UNCHANGED << cmdVars, libVars, mergeVars, prefix, histVars >>

\* io.Copy from offset 0 of the output file, then both files are closed.
RwCopy(at, next) ==
    /\ pc = at
    /\ \/ /\ fs' = Store(TmpPath(outpath), WriteBytes(fs[TmpPath(outpath)], fs[outpath]))
          /\ pc' = next
          /\ UNCHANGED << faults, exitAt >>
       \/ /\ MayFail
          /\ \E part \in Partial(fs[outpath]) :
               fs' = Store(TmpPath(outpath), fs[TmpPath(outpath)] \o part)
          /\ Fail("copy")
          /\ Stop("exit1")
    /\ UNCHANGED << cmdVars, libVars, mergeVars, prefix, histVars >>

RwRemove(at, next) ==
    /\ pc = at
    /\ \/ /\ fs' = Remove(outpath)
          /\ pc' = next
          /\ UNCHANGED << faults, exitAt >>
       \/ /\ MayFail
          /\ Fail("remove")
          /\ Stop("exit1")
          /\ UNCHANGED fs
    /\ UNCHANGED << cmdVars, libVars, mergeVars, prefix, histVars >>

RwRename(at, step) ==
    /\ pc = at
    /\ \/ /\ fs' = Rename(TmpPath(outpath), outpath)
          /\ pc' = Following(step)
          /\ steps' = Append(steps, step)
          /\ UNCHANGED << faults, exitAt >>
       \/ /\ MayFail
          /\ Fail("rename")
          /\ Stop("exit1")
          /\ UNCHANGED << fs, steps >>
    /\ UNCHANGED << cmdVars, libVars, mergeVars, prefix, yielded, written, nwritten, fs0,
                    before, passOut >>

(***************************************************************************)
(* merge: if isVBR, addXingHeader.                                         *)
(***************************************************************************)
CheckVBR ==
    /\ pc = "finalize"
    /\ IF isVBR
       THEN pc' = "xing_create" /\ before' = fs[outpath]
       ELSE pc' = Following("xing") /\ UNCHANGED before
    /\ UNCHANGED << fs, cmdVars, libVars, mergeVars, prefix, yielded, written, nwritten,
                    steps, fs0, passOut, faults, exitAt >>

XingCreate == RwCreate("xing_create", "xing_open")

XingOpen == RwOpen("xing_open", "xing_template")

\* templateFrame := NextFrame(inputFile); Seek(0, 0); NewXingHeader(...).
\* A nil template (a failed read) and a template too short for the Xing
\* fields both end in a runtime panic.
XingTemplate ==
    /\ pc = "xing_template"
    /\ \/ LET data == fs[outpath]
              obj == NextFrame(data, Len(data), 0)
              xing == IF obj.kind = "nil" THEN [ok |-> FALSE]
                      ELSE NewXingHeader(obj.frame, totalFrames, totalBytes)
          IN  IF xing.ok
              THEN /\ prefix' = xing.frame.RawBytes
                   /\ pc' = "xing_write"
                   /\ UNCHANGED << faults, exitAt >>
              ELSE /\ Stop("panic")
                   /\ UNCHANGED << prefix, faults >>
       \/ /\ MayFail
          /\ Fail("read")
          /\ Stop("panic")
          /\ UNCHANGED prefix
    /\ UNCHANGED << fs, cmdVars, libVars, mergeVars, histVars >>

XingWrite == RwWrite("xing_write", "xing_copy")

XingCopy == RwCopy("xing_copy", "xing_remove")

XingRemove == RwRemove("xing_remove", "xing_rename")

XingRename == RwRename("xing_rename", "xing")

(***************************************************************************)
(* merge: if tagpath is set, addID3v2Tag.                                  *)
(***************************************************************************)
CheckTag ==
    /\ pc = "tagstep"
    /\ pc' = IF tagpath # "" THEN "tag_read" ELSE Following("tag")
    /\ UNCHANGED << fs, cmdVars, libVars, mergeVars, prefix, histVars, faults, exitAt >>

\* A faulty test that starts the rewrite whether a tag was found or not.
AfterTagReadRewrite(found) == "tag_create"

\* if id3tag != nil: the rewrite is done only when a tag was found.
AfterTagRead(found) == IF found THEN "tag_create" ELSE Following("tag")

\* os.Open(tagPath); NextID3v2Tag(tagFile); tagFile.Close().
TagRead ==
    /\ pc = "tag_read"
    /\ \/ /\ Exists(tagpath)
          /\ LET data == fs[tagpath]
                 obj == NextID3v2Tag(data, Len(data), 0)
                 found == obj.kind # "nil"
             IN  /\ pc' = AfterTagRead(found)
                 /\ prefix' = (IF found THEN obj.RawBytes ELSE prefix)
                 /\ before' = (IF found THEN fs[outpath] ELSE before)
          /\ UNCHANGED << faults, exitAt >>
       \/ \* os.Open fails
          /\ MayFail \/ ~Exists(tagpath)
          /\ Fail("open")
          /\ Stop("exit1")
          /\ UNCHANGED << prefix, before >>
       \/ \* a read fails: NextID3v2Tag returns nil, as for a file without a tag
          /\ MayFail
          /\ Exists(tagpath)
          /\ Fail("read")
          /\ pc' = Following("tag")
          /\ UNCHANGED << prefix, before, exitAt >>
    /\ UNCHANGED << fs, cmdVars, libVars, mergeVars, yielded, written, nwritten, steps,
                    fs0, passOut >>

TagCreate == RwCreate("tag_create", "tag_open")

TagOpen == RwOpen("tag_open", "tag_write")

TagWrite == RwWrite("tag_write", "tag_copy")

TagCopy == RwCopy("tag_copy", "tag_remove")

TagRemove == RwRemove("tag_remove", "tag_rename")

TagRename == RwRename("tag_rename", "tag")

(***************************************************************************)
(* merge: if tags were given, addID3v2Tags; then merge returns.            *)
(***************************************************************************)
\* The tag the id3v2 library writes for the --set-meta pairs.
MetaTag == <<73, 68, 51, 4, 0, 0, 0, 0, 0, 1, 77>>

\* The file without the ID3v2 tag it starts with, if any.
MusicPart(data) ==
    LET obj == NextObject(data, Len(data), 0)
    IN  IF obj.kind = "id3v2" THEN Slice(data, obj.pos, Len(data)) ELSE data

\* addID3v2Tags: the library saves its tag in front of the music part.
CheckMeta ==
    /\ pc = "metastep"
    /\ IF ~tags
       THEN /\ pc' = Following("meta")
            /\ UNCHANGED << fs, steps, faults, exitAt >>
       ELSE \/ /\ Exists(outpath)
               /\ fs' = Store(outpath, MetaTag \o MusicPart(fs[outpath]))
               /\ pc' = Following("meta")
               /\ steps' = Append(steps, "meta")
               /\ UNCHANGED << faults, exitAt >>
            \/ /\ MayFail
               /\ Fail("save")
               /\ Stop("exit1")
               /\ UNCHANGED << fs, steps >>
    /\ UNCHANGED << cmdVars, libVars, mergeVars, prefix, yielded, written, nwritten, fs0,
                    before, passOut >>

Next ==
    \/ Main
    \/ MergeStart
    \/ OpenInput
    \/ ReadFrame
    \/ EndPass
    \/ CheckVBR
    \/ XingCreate
    \/ XingOpen
    \/ XingTemplate
    \/ XingWrite
    \/ XingCopy
    \/ XingRemove
    \/ XingRename
    \/ CheckTag
    \/ TagRead
    \/ TagCreate
    \/ TagOpen
    \/ TagWrite
    \/ TagCopy
    \/ TagRemove
    \/ TagRename
    \/ CheckMeta

Spec == Init /\ [][Next]_vars

(***************************************************************************)
(* The counters of the frame loop on long inputs.  A run is n consecutive  *)
(* frames with the same header: the loop body does the same arithmetic on  *)
(* each, so one step takes the whole run.  Only the counters are kept.     *)
(***************************************************************************)
\* MPEG1 Layer III, 128 kbps, 44100 Hz: 417 bytes.
HdrCD == <<255, 251, 144, 0>>
\* MPEG1 Layer III, 320 kbps, 32000 Hz: 1440 bytes.
HdrBig == <<255, 251, 232, 0>>

RunHeaders == {Hdr16, HdrCD, HdrBig}

\* The numbers of frames a run may have.
RunLengths == {1, 1000000}

\* The number of runs of one merge.
MaxRuns == 4

InitTotals ==
    /\ pc = "count"
    /\ fs = InputFS
    /\ fs0 = fs
    /\ files = << >>
    /\ outpath = ""
    /\ tagpath = ""
    /\ tags = FALSE
    /\ force = FALSE
    /\ idx = 0
    /\ inpos = 0
    /\ isFirstFrame = FALSE
    /\ firstBitRate = 0
    /\ isVBR = FALSE
    /\ totalFrames = U32(0)
    /\ totalBytes = U32(0)
    /\ totalFiles = 0
    /\ prefix = << >>
    /\ yielded = << >>
    /\ written = Wide(0)
    /\ nwritten = Wide(0)
    /\ steps = << >>
    /\ faults = << >>
    /\ before = << >>
    /\ passOut = << >>
    /\ exitAt = ""
    /\ cmdline = NoCmdline
    /\ stream = << >>
    /\ parts = << >>
    /\ objects = << >>

\* The frame loop on a run of n kept frames with header hdr.
CountRun ==
    /\ pc = "count"
    /\ idx < MaxRuns
    /\ \E hdr \in RunHeaders, n \in RunLengths :
         LET frame == parseHeader(hdr)
             rate == TrackBitRate(firstBitRate, isVBR, frame.BitRate)
             totals == CountFrames(totalFrames, totalBytes, frame.FrameLength, n)
         IN  /\ firstBitRate' = rate[1]
             /\ isVBR' = rate[2]
             /\ totalFrames' = totals[1]
             /\ totalBytes' = totals[2]
             /\ written' = WideAdd(written, n * frame.FrameLength)
             /\ nwritten' = WideAdd(nwritten, n)
    /\ idx' = idx + 1
    /\ UNCHANGED << pc, fs, cmdVars, libVars, inpos, isFirstFrame, totalFiles, prefix,
                    yielded, steps, fs0, faults, before, passOut, exitAt >>

\* The last input ends.
EndCount ==
    /\ pc = "count"
    /\ pc' = "counted"
    /\ UNCHANGED << fs, cmdVars, libVars, mergeVars, prefix, histVars, faults, exitAt >>

NextTotals == CountRun \/ EndCount

SpecTotals == InitTotals /\ [][NextTotals]_vars

(***************************************************************************)
(* The scanner alone.  A stream is put together from whole frames, whole   *)
(* tags and pieces of garbage, its end may be cut off, and it is then read *)
(* to its end by repeated calls of NextFrame or of NextObject.             *)
(***************************************************************************)
\* The variables of the program, which takes no step here.
ProgramIdle ==
    /\ fs = InputFS
    /\ fs0 = fs
    /\ files = << >>
    /\ outpath = ""
    /\ tagpath = ""
    /\ tags = FALSE
    /\ force = FALSE
    /\ cmdline = NoCmdline
    /\ idx = 0
    /\ isFirstFrame = FALSE
    /\ firstBitRate = 0
    /\ isVBR = FALSE
    /\ totalFrames = U32(0)
    /\ totalBytes = U32(0)
    /\ totalFiles = 0
    /\ prefix = << >>
    /\ yielded = << >>
    /\ written = Wide(0)
    /\ nwritten = Wide(0)
    /\ steps = << >>
    /\ faults = << >>
    /\ before = << >>
    /\ passOut = << >>
    /\ exitAt = ""

programVars == << fs, cmdVars, idx, isFirstFrame, firstBitRate, isVBR, totalFrames,
                  totalBytes, totalFiles, prefix, histVars, faults, exitAt >>

\* An ID3v1 tag: "TAG" and 125 more bytes.
OldTag == <<84, 65, 71>> \o [i \in 1..125 |-> 7]

\* The whole objects a stream is made of.
ScanPieces == { [kind |-> "frame", bytes |-> MkFrame(HdrShort, 17)],
                [kind |-> "frame", bytes |-> MkFrame(Hdr16, 18)],
                [kind |-> "id3v2", bytes |-> SmallTag],
                [kind |-> "id3v1", bytes |-> OldTag] }

\* The garbage put between them: zeros, 0xFF, a sync with a reserved layer,
\* the beginning of "TAG", and two pieces the scanner recognises.
GarbagePieces == { <<0>>, <<255>>, <<255, 224, 0>>, <<84, 65>>,
                   <<84, 65, 71>>, HdrShort }

\* The numbers of bytes that may be cut off the end of the stream.
Cuts == {1, 5, 21, 125}

\* The number of whole objects and of garbage pieces of one stream.
MaxPieces == 2
MaxGarbage == 2

Pieces(kinds) == SelectSeq(parts, LAMBDA x : x.kind \in kinds)

InitScan ==
    /\ pc = "compose"
    /\ stream = << >>
    /\ parts = << >>
    /\ objects = << >>
    /\ inpos = 0
    /\ ProgramIdle

\* One more frame or tag at the end of the stream.
PutPiece ==
    /\ pc = "compose"
    /\ Len(Pieces({"frame", "id3v1", "id3v2"})) < MaxPieces
    /\ \E x \in ScanPieces :
         /\ stream' = stream \o x.bytes
         /\ parts' = Append(parts, x)
    /\ UNCHANGED << pc, inpos, objects, programVars >>

\* One more piece of garbage at the end of the stream.
PutGarbage ==
    /\ pc = "compose"
    /\ Len(Pieces({"garbage"})) < MaxGarbage
    /\ \E g \in GarbagePieces :
         /\ stream' = stream \o g
         /\ parts' = Append(parts, [kind |-> "garbage", bytes |-> g])
    /\ UNCHANGED << pc, inpos, objects, programVars >>

\* The end of the stream is cut off: the file is truncated.
Truncate ==
    /\ pc = "compose"
    /\ \E n \in Cuts :
         /\ n < Len(stream)
         /\ stream' = Slice(stream, 0, Len(stream) - n)
    /\ pc' = "composed"
    /\ UNCHANGED << inpos, parts, objects, programVars >>

\* The stream is opened, to be read by NextFrame or by NextObject.
StartScan ==
    /\ pc \in {"compose", "composed"}
    /\ pc' \in {"scan_frames", "scan_objects"}
    /\ UNCHANGED << inpos, libVars, programVars >>

\* One call of NextFrame.
ScanFrame ==
    /\ pc = "scan_frames"
    /\ LET obj == NextFrame(stream, Len(stream), inpos)
       IN  /\ inpos' = obj.pos
           /\ IF obj.kind = "nil"
              THEN pc' = "frames_done" /\ UNCHANGED objects
              ELSE objects' = Append(objects, obj) /\ UNCHANGED pc
    /\ UNCHANGED << stream, parts, programVars >>

\* One call of NextObject.
ScanObject ==
    /\ pc = "scan_objects"
    /\ LET obj == NextObject(stream, Len(stream), inpos)
       IN  /\ inpos' = obj.pos
           /\ IF obj.kind = "nil"
              THEN pc' = "objects_done" /\ UNCHANGED objects
              ELSE objects' = Append(objects, obj) /\ UNCHANGED pc
    /\ UNCHANGED << stream, parts, programVars >>

NextScan ==
    \/ PutPiece
    \/ PutGarbage
    \/ Truncate
    \/ StartScan
    \/ ScanFrame
    \/ ScanObject

SpecScan == InitScan /\ [][NextScan]_vars

(***************************************************************************)
(* The header decoder alone: a 4-byte window is tested as NextObject tests *)
(* it for a frame (the sync bits, then parseHeader).                       *)
(***************************************************************************)
\* Second header bytes with the sync bits set: every version, layer and
\* protection bit.
SyncBytes == 224..255

\* Third header bytes: every bit-rate index, sampling-rate index and padding
\* bit, and two with the private bit.
RateBytes == {b * 16 + r * 4 + p * 2 : b \in 0..15, r \in 0..3, p \in 0..1}
             \cup {145, 147}

\* Fourth header bytes: every channel mode with every mode extension, and
\* the emphasis, copyright and original bits.
ModeBytes == {c * 64 + m * 16 : c \in 0..3, m \in 0..3}
             \cup {c * 64 + low : c \in {0, 1, 3}, low \in {1, 2, 3, 4, 8, 15}}

\* Windows without the frame sync whose other bits are those of a frame.
UnsyncedWindows == { <<254, 251, 144, 0>>, <<0, 251, 144, 0>>, <<255, 219, 144, 0>>,
                     <<255, 123, 144, 0>>, <<255, 187, 144, 64>> }

HeaderWindows ==
    {<<255, b1, b2, b3>> : b1 \in SyncBytes, b2 \in RateBytes, b3 \in ModeBytes}
    \cup UnsyncedWindows

InitHeader ==
    /\ pc = "window"
    /\ stream \in HeaderWindows
    /\ parts = << >>
    /\ objects = << >>
    /\ inpos = 0
    /\ ProgramIdle

\* NextObject's frame test of the window.
Decode ==
    /\ pc = "window"
    /\ pc' = "decoded"
    /\ objects' = << IF FrameSync(stream) /\ parseHeader(stream).ok
                     THEN parseHeader(stream) ELSE NoFrame >>
    /\ UNCHANGED << stream, parts, inpos, programVars >>

NextHeader == Decode

SpecHeader == InitHeader /\ [][NextHeader]_vars

(***************************************************************************)
(* The VBR-header functions alone: a stream of one frame is read with      *)
(* NextFrame, and the frame is given to IsXingHeader and IsVbriHeader, or  *)
(* to NewXingHeader as its template.                                       *)
(***************************************************************************)
\* Headers of every version and layer, mono and not, from 24 to 96 bytes:
\* MPEG1 Layer III 32 kbps 48000 Hz (96 bytes), MPEG2 Layer III 8 and 16 kbps
\* 24000 Hz (24 and 48), MPEG2.5 Layer III 8 kbps 12000 Hz (48), MPEG1
\* Layer I (32) and II (96), MPEG2 Layer I (64) and II (48).
FrameHeaders ==
    { <<255, 251, 20, 192>>, <<255, 251, 20, 0>>, <<255, 251, 20, 64>>,
      <<255, 243, 20, 192>>, <<255, 243, 20, 0>>,
      <<255, 243, 36, 192>>, <<255, 243, 36, 0>>,
      <<255, 227, 20, 192>>, <<255, 227, 20, 128>>,
      <<255, 255, 20, 0>>, <<255, 253, 20, 192>>,
      <<255, 247, 20, 0>>, <<255, 245, 20, 192>> }

\* The signatures a frame may carry, and the offsets they are put at.
Signatures == {AsciiXing, AsciiInfo, AsciiVBRI}
SignatureOffsets == {4, 13, 21, 36}

\* The totals given to NewXingHeader: << totalFrames, totalBytes >>.
TotalsValues == { << U32(0), U32(0) >>, << U32(3), U32(96) >>,
                  << <<1, 2>>, <<65535, 65534>> >> }

FrameStreams ==
    {MkFrame(h, 9) : h \in FrameHeaders}
    \cup {WithSig(MkFrame(h, 9), o, sig) : h \in FrameHeaders, o \in SignatureOffsets,
                                           sig \in Signatures}

InitFrame ==
    /\ pc = "stream"
    /\ stream \in {x \in FrameStreams : Len(x) = parseHeader(x).FrameLength}
    /\ parts = << [kind |-> "frame", bytes |-> stream] >>
    /\ objects = << >>
    /\ inpos = 0
    /\ ProgramIdle

\* NextFrame returns the frame of the stream.
ReadTemplate ==
    /\ pc = "stream"
    /\ LET obj == NextFrame(stream, Len(stream), inpos)
       IN  /\ obj.kind = "frame"
           /\ inpos' = obj.pos
           /\ objects' = << obj.frame >>
    /\ pc' = "frame"
    /\ UNCHANGED << stream, parts, programVars >>

\* IsXingHeader(frame) and IsVbriHeader(frame).
Classify ==
    /\ pc = "frame"
    /\ objects' = Append(objects, [xing |-> IsXingHeader(objects[1]),
                                   vbri |-> IsVbriHeader(objects[1])])
    /\ pc' = "classified"
    /\ UNCHANGED << stream, parts, inpos, programVars >>

\* NewXingHeader(frame, totalFrames, totalBytes).
Synthesize ==
    /\ pc = "frame"
    /\ \E totals \in TotalsValues :
         objects' = Append(objects,
                           [totalFrames |-> totals[1], totalBytes |-> totals[2],
                            xingHeader |-> NewXingHeader(objects[1], totals[1], totals[2])])
    /\ pc' = "synthesized"
    /\ UNCHANGED << stream, parts, inpos, programVars >>

NextFrameSpec == ReadTemplate \/ Classify \/ Synthesize

SpecFrame == InitFrame /\ [][NextFrameSpec]_vars

(***************************************************************************)
(* The scanner on a stream that begins with an ID3v2 header: the header,   *)
(* n more bytes, then a frame.  The n bytes are those of a run of equal    *)
(* frames, so that a scan that starts among them soon finds an object.     *)
(***************************************************************************)
\* The first two size bytes, the third and the fourth.
SizeHighBytes == { <<0, 0>>, <<0, 1>>, <<1, 0>> }
SizeThirdBytes == {0, 1, 2, 129}
SizeFourthBytes == {0, 3, 127, 128, 131}

\* The number of bytes between the header and the last frame.
BodyLengths == {0, 3, 128, 131, 256, 300, 16387, 16767, 16900}

\* "ID3", version 3.0, no flags, and the four size bytes.
TagHeader(high, third, fourth) == <<73, 68, 51, 3, 0, 0, high[1], high[2], third, fourth>>

\* The first n bytes of a run of frames.
TagBody(n) == [i \in 1..n |-> MkFrame(Hdr16, 42)[((i - 1) % 48) + 1]]

InitTag ==
    /\ pc = "tagstream"
    /\ \E high \in SizeHighBytes, third \in SizeThirdBytes, fourth \in SizeFourthBytes,
          n \in BodyLengths :
         stream = TagHeader(high, third, fourth) \o TagBody(n) \o MkFrame(Hdr16, 1)
    /\ parts = << >>
    /\ objects = << >>
    /\ inpos = 0
    /\ ProgramIdle

\* NextObject on the stream, twice: the tag, then what follows it.
ReadTag ==
    /\ pc \in {"tagstream", "tagread"}
    /\ LET obj == NextObject(stream, Len(stream), inpos)
       IN  /\ objects' = Append(objects, obj)
           /\ inpos' = obj.pos
    /\ pc' = (IF pc = "tagstream" THEN "tagread" ELSE "tagnext")
    /\ UNCHANGED << stream, parts, programVars >>

NextTag == ReadTag

SpecTag == InitTag /\ [][NextTag]_vars

(***************************************************************************)
(* The vendored command-line parser, clio.  An argument is the sequence    *)
(* of its characters; a parser is its options by name, its shortcuts, its  *)
(* commands, the positional arguments found and, when ParseArgs has        *)
(* called os.Exit, the exit status.                                        *)
(***************************************************************************)
flagType == 0
strType == 1
intType == 2
floatType == 3

\* unicode.IsDigit, for the characters of the arguments used.
DecimalDigits == {"0", "1", "2", "3", "4", "5", "6", "7", "8", "9"}
IsDigit(c) == c \in DecimalDigits

\* The value of a digit character in the bases up to 16, or 16 for none.
DigitValue(c) ==
    CASE c = "0" -> 0 [] c = "1" -> 1 [] c = "2" -> 2 [] c = "3" -> 3
      [] c = "4" -> 4 [] c = "5" -> 5 [] c = "6" -> 6 [] c = "7" -> 7
      [] c = "8" -> 8 [] c = "9" -> 9
      [] c \in {"a", "A"} -> 10 [] c \in {"b", "B"} -> 11 [] c \in {"c", "C"} -> 12
      [] c \in {"d", "D"} -> 13 [] c \in {"e", "E"} -> 14 [] c \in {"f", "F"} -> 15
      [] OTHER -> 16

\* The number the digits stand for in the base, read from the left.
RECURSIVE DigitsValue(_, _, _)
DigitsValue(digits, base, acc) ==
    IF digits = << >> THEN acc
    ELSE DigitsValue(Tail(digits), base, acc * base + DigitValue(Head(digits)))

\* strconv.ParseInt(s, 0, 0): an optional sign, then the base taken from the
\* prefix (0x, 0b, 0o, 0, or none: decimal), then digits of that base.
ParseInt(chars) ==
    LET signed == chars # << >> /\ chars[1] \in {"+", "-"}
        body == IF signed THEN Tail(chars) ELSE chars
        prefixed == Len(body) >= 2 /\ body[1] = "0"
        base == IF ~prefixed THEN 10
                ELSE IF body[2] \in {"x", "X"} THEN 16
                ELSE IF body[2] \in {"b", "B"} THEN 2
                ELSE 8
        digits == IF ~prefixed THEN body
                  ELSE IF body[2] \in {"x", "X", "b", "B", "o", "O"}
                  THEN SubSeq(body, 3, Len(body))
                  ELSE Tail(body)
        valid == /\ digits # << >>
                 /\ \A k \in 1..Len(digits) : DigitValue(digits[k]) < base
        value == DigitsValue(digits, base, 0)
    IN  IF ~valid THEN [ok |-> FALSE]
        ELSE [ok |-> TRUE,
              value |-> IF signed /\ chars[1] = "-" THEN 0 - value ELSE value]

\* strconv.ParseFloat(s, 64) on decimal numerals with up to three digits
\* after the point: an optional sign, digits, an optional point and digits.
\* The value is kept in thousandths.
ParseFloat(chars) ==
    LET signed == chars # << >> /\ chars[1] \in {"+", "-"}
        body == IF signed THEN Tail(chars) ELSE chars
        points == {k \in 1..Len(body) : body[k] = "."}
        point == IF points = {} THEN Len(body) + 1 ELSE CHOOSE k \in points : TRUE
        whole == SubSeq(body, 1, point - 1)
        frac == SubSeq(body, point + 1, Len(body))
        padded == frac \o SubSeq(<<"0", "0", "0">>, 1, 3 - Len(frac))
        valid == /\ Cardinality(points) <= 1
                 /\ Len(whole) + Len(frac) >= 1
                 /\ Len(frac) <= 3
                 /\ \A k \in 1..Len(whole) : IsDigit(whole[k])
                 /\ \A k \in 1..Len(frac) : IsDigit(frac[k])
        value == DigitsValue(whole, 10, 0) * 1000 + DigitsValue(padded, 10, 0)
    IN  IF ~valid THEN [ok |-> FALSE]
        ELSE [ok |-> TRUE,
              value |-> IF signed /\ chars[1] = "-" THEN 0 - value ELSE value]

\* An option as AddFlag, AddStrOpt, AddIntOpt and AddFloatOpt register it.
FlagOpt == [optType |-> flagType, boolVal |-> FALSE, strVal |-> << >>, intVal |-> 0,
            floatVal |-> 0]
StrOpt(defVal) == [FlagOpt EXCEPT !.optType = strType, !.strVal = defVal]
IntOpt(defVal) == [FlagOpt EXCEPT !.optType = intType, !.intVal = defVal]
FloatOpt(defVal) == [FlagOpt EXCEPT !.optType = floatType, !.floatVal = defVal]

\* The names and the default of the parser's options.
NameBool == <<"b", "o", "o", "l">>
NameString == <<"s", "t", "r", "i", "n", "g">>
NameInt == <<"i", "n", "t">>
NameFloat == <<"f", "l", "o", "a", "t">>
NameHelp == <<"h", "e", "l", "p">>
NameVersion == <<"v", "e", "r", "s", "i", "o", "n">>
DefaultString == <<"d", "e", "f", "a", "u", "l", "t">>

\* NewParser("", "") with the flag b, the string option s (default
\* "default"), the integer option i (101) and the float option f (1.1).
NewParser ==
    [ helptext |-> << >>,
      version |-> << >>,
      options |-> (NameBool :> FlagOpt) @@ (NameString :> StrOpt(DefaultString))
                  @@ (NameInt :> IntOpt(101)) @@ (NameFloat :> FloatOpt(1100)),
      shortcuts |-> ("b" :> NameBool) @@ ("s" :> NameString) @@ ("i" :> NameInt)
                    @@ ("f" :> NameFloat),
      commands |-> << >>,
      arguments |-> << >>,
      command |-> << >>,
      status |-> "ok" ]

\* os.Exit(code) inside ParseArgs.
Exit(parser, code) == [parser EXCEPT !.status = IF code = 0 THEN "exit0" ELSE "exit1"]

HasPrefix(arg, start) ==
    Len(arg) >= Len(start) /\ SubSeq(arg, 1, Len(start)) = start

\* opt.boolVal = true.
SetFlag(parser, name) == [parser EXCEPT !.options[name].boolVal = TRUE]

\* The switch on opt.optType that stores nextarg in the option: the parser
\* afterwards, exited when nextarg cannot be parsed.
SetValue(parser, name, nextarg) ==
    LET opt == parser.options[name]
    IN  CASE opt.optType = strType ->
                [parser EXCEPT !.options[name].strVal = nextarg]
          [] opt.optType = intType ->
                IF ParseInt(nextarg).ok
                THEN [parser EXCEPT !.options[name].intVal = ParseInt(nextarg).value]
                ELSE Exit(parser, 1)
          [] opt.optType = floatType ->
                IF ParseFloat(nextarg).ok
                THEN [parser EXCEPT !.options[name].floatVal = ParseFloat(nextarg).value]
                ELSE Exit(parser, 1)

\* A faulty loop that looks at the first character of a block only.
BlockCharsFirst(arg) == << arg[2] >>

\* range arg[1:]: the characters of a short-form block after the dash.
BlockChars(arg) == Tail(arg)

\* The loop over the characters of a short-form block, the stream being at
\* index: the parser and the stream's index afterwards.
RECURSIVE ParseBlock(_, _, _, _)
ParseBlock(parser, chars, args, index) ==
    IF chars = << >> THEN [parser |-> parser, index |-> index]
    ELSE LET c == Head(chars)
         IN  IF c \in DOMAIN parser.shortcuts
             THEN LET name == parser.shortcuts[c]
                  IN  IF parser.options[name].optType = flagType
                      THEN ParseBlock(SetFlag(parser, name), Tail(chars), args, index)
                      ELSE IF ~(index < Len(args))
                      THEN [parser |-> Exit(parser, 1), index |-> index]
                      ELSE LET set == SetValue(parser, name, args[index + 1])
                           IN  IF set.status = "ok"
                               THEN ParseBlock(set, Tail(chars), args, index + 1)
                               ELSE [parser |-> set, index |-> index + 1]
             ELSE [parser |-> Exit(parser, 1), index |-> index]

\* ParseArgs: the loop over the stream of arguments from index on.
RECURSIVE ParseArgs(_, _, _, _)
ParseArgs(parser, args, index, parsing) ==
    IF parser.status # "ok" \/ ~(index < Len(args)) THEN parser
    ELSE LET arg == args[index + 1]
             positional == [parser EXCEPT !.arguments = Append(@, arg)]
         IN  IF ~parsing THEN ParseArgs(positional, args, index + 1, FALSE)
             ELSE IF arg = <<"-", "-">> THEN ParseArgs(parser, args, index + 1, FALSE)
             ELSE IF HasPrefix(arg, <<"-", "-">>)
             THEN LET name == SubSeq(arg, 3, Len(arg))
                  IN  IF name \in DOMAIN parser.options
                      THEN IF parser.options[name].optType = flagType
                           THEN ParseArgs(SetFlag(parser, name), args, index + 1, TRUE)
                           ELSE IF ~(index + 1 < Len(args)) THEN Exit(parser, 1)
                           ELSE ParseArgs(SetValue(parser, name, args[index + 2]),
                                          args, index + 2, TRUE)
                      ELSE IF name = NameHelp /\ parser.helptext # << >>
                      THEN Exit(parser, 0)
                      ELSE IF name = NameVersion /\ parser.version # << >>
                      THEN Exit(parser, 0)
                      ELSE Exit(parser, 1)
             ELSE IF HasPrefix(arg, <<"-">>)
             THEN IF arg = <<"-">> \/ IsDigit(arg[2])
                  THEN ParseArgs(positional, args, index + 1, TRUE)
                  ELSE LET block == ParseBlock(parser, BlockChars(arg), args, index + 1)
                       IN  ParseArgs(block.parser, args, block.index, TRUE)
             ELSE IF arg \in DOMAIN parser.commands
             THEN [parser EXCEPT !.command = arg,
                                 !.commands[arg] =
                                     ParseArgs(@, SubSeq(args, index + 2, Len(args)), 0, TRUE)]
             ELSE IF arg = NameHelp
             THEN IF index + 1 < Len(args) /\ args[index + 2] \in DOMAIN parser.commands
                  THEN Exit(parser, 0)
                  ELSE Exit(parser, 1)
             ELSE ParseArgs(positional, args, index + 1, TRUE)

\* The longest block of shortcuts and the most arguments after it.
MaxBlock == 3
MaxValues == 3

\* The characters of a block: the four shortcuts and one that is none.
BlockLetters == {"b", "s", "i", "f", "x"}

\* The arguments that follow the block: value, 202, 2.2, 08 and -b.
ValueArgs == { <<"v", "a", "l", "u", "e">>, <<"2", "0", "2">>, <<"2", ".", "2">>,
               <<"0", "8">>, <<"-", "b">> }

Blocks == UNION {[1..n -> BlockLetters] : n \in 1..MaxBlock}
ValueLists == UNION {[1..n -> ValueArgs] : n \in 0..MaxValues}

\* The same command line with each shortcut of the block given separately,
\* followed by the argument it takes if it takes one and one is left.
RECURSIVE Separately(_, _)
Separately(letters, values) ==
    IF letters = << >> THEN values
    ELSE IF Head(letters) \in {"s", "i", "f"} /\ values # << >>
    THEN << <<"-", Head(letters)>>, Head(values) >> \o Separately(Tail(letters), Tail(values))
    ELSE << <<"-", Head(letters)>> >> \o Separately(Tail(letters), values)

\* stream is the command line with the condensed block, parts the same
\* command line with the shortcuts given separately.
InitClio ==
    /\ pc = "cmdline"
    /\ \E letters \in Blocks, values \in ValueLists :
         /\ stream = << <<"-">> \o letters >> \o values
         /\ parts = Separately(letters, values)
    /\ objects = << >>
    /\ inpos = 0
    /\ ProgramIdle

\* parser.ParseArgs on the condensed command line.
ParseCondensed ==
    /\ pc = "cmdline"
    /\ objects' = << ParseArgs(NewParser, stream, 0, TRUE) >>
    /\ pc' = "condensed"
    /\ UNCHANGED << stream, parts, inpos, programVars >>

\* parser.ParseArgs, on a new parser, on the separate command line.
ParseSeparate ==
    /\ pc = "condensed"
    /\ objects' = Append(objects, ParseArgs(NewParser, parts, 0, TRUE))
    /\ pc' = "separate"
    /\ UNCHANGED << stream, parts, inpos, programVars >>

NextClio == ParseCondensed \/ ParseSeparate

SpecClio == InitClio /\ [][NextClio]_vars

(***************************************************************************)
(* Properties.  Helpers first: the frames kept, their bytes, and what the  *)
(* output must be when computed from whole input files.                    *)
(***************************************************************************)
Kept == SelectSeq(yielded, LAMBDA e : e.kept)

RECURSIVE RawOf(_)
RawOf(entries) ==
    IF entries = << >> THEN << >>
    ELSE Head(entries).frame.RawBytes \o RawOf(Tail(entries))

RECURSIVE SumLen(_)
SumLen(entries) ==
    IF entries = << >> THEN 0
    ELSE Len(Head(entries).frame.RawBytes) + SumLen(Tail(entries))

\* IsXingHeader or IsVbriHeader holds for the frame.
VbrSig(frame) == IsXingHeader(frame) = "true" \/ IsVbriHeader(frame) = "true"

\* Every frame of a whole file, in stream order.
RECURSIVE AllFrames(_, _)
AllFrames(data, pos) ==
    LET obj == NextFrame(data, Len(data), pos)
    IN  IF obj.kind = "nil" THEN << >>
        ELSE << obj.frame >> \o AllFrames(data, obj.pos)

RECURSIVE JoinFrames(_)
JoinFrames(frames) ==
    IF frames = << >> THEN << >>
    ELSE Head(frames).RawBytes \o JoinFrames(Tail(frames))

\* The frames of a file that merge must keep.
RetainedOf(data) ==
    LET all == AllFrames(data, 0)
    IN  IF all # << >> /\ VbrSig(all[1]) THEN Tail(all) ELSE all

RECURSIVE ExpectedOutput(_)
ExpectedOutput(list) ==
    IF list = << >> THEN << >>
    ELSE JoinFrames(RetainedOf(fs0[Head(list)])) \o ExpectedOutput(Tail(list))

PassSteps == {"open", "frame", "finalize"}
XingSteps == {"xing_create", "xing_open", "xing_template", "xing_write",
              "xing_copy", "xing_remove", "xing_rename"}
TagSteps == {"tag_create", "tag_open", "tag_write", "tag_copy", "tag_remove",
             "tag_rename"}

\* The Xing frame the kept frames call for.
ExpectedXing ==
    NewXingHeader(Kept[1].frame, U32(Len(Kept)), U32(SumLen(Kept))).frame.RawBytes

\* Bytes [0, 10 + S) of a file that starts with an ID3v2 header declaring S.
DeclaredTag(data) ==
    Slice(data, 0, 10 + data[7] * 2097152 + data[8] * 16384 + data[9] * 128 + data[10])

\* C1: when the concatenation pass has ended and no finalizer step has run,
\* the output file is exactly the raw bytes of the frames NextFrame yielded
\* and merge kept, in the order read; without a failed read that is the
\* retained frames of every input file, in list order.
C1_ConcatExact ==
    pc = "finalize" =>
        /\ fs[outpath] = RawOf(Kept)
        /\ (faults = << >> => fs[outpath] = ExpectedOutput(files))

C1_Witness ==
    /\ pc = "finalize"
    /\ faults = << >>
    /\ Len(files) = 2
    /\ Len(Kept) >= 3
    /\ \E i \in 1..Len(yielded) : ~yielded[i].kept
    /\ \E i \in 1..Len(yielded) : yielded[i].kept /\ yielded[i].input = 2

\* C2: a frame is discarded exactly when it is the first frame read from its
\* input and IsXingHeader or IsVbriHeader holds for it; at most one frame
\* per input is discarded; the kept frames are the ones counted and written.
C2_SkipOnlyLeadingVbr ==
    /\ \A i \in 1..Len(yielded) :
         (~yielded[i].kept) <=>
            /\ \A j \in 1..(i - 1) : yielded[j].input # yielded[i].input
            /\ VbrSig(yielded[i].frame)
    /\ \A i, j \in 1..Len(yielded) :
         (i # j /\ ~yielded[i].kept /\ ~yielded[j].kept)
            => yielded[i].input # yielded[j].input
    /\ pc \in PassSteps =>
         /\ totalFrames = U32(Len(Kept))
         /\ Len(fs[outpath]) = SumLen(Kept)

C2_Witness ==
    \E i, j \in 1..Len(yielded) :
        /\ i < j
        /\ yielded[i].input = yielded[j].input
        /\ ~yielded[i].kept
        /\ yielded[j].kept
        /\ IsXingHeader(yielded[j].frame) = "true"

\* C3: firstBitRate is the bit rate of the first kept frame of the merge
\* (0 before it), and isVBR holds exactly when some kept frame has another
\* bit rate than that first one.
C3_VbrIffMixed ==
    /\ firstBitRate = (IF Kept = << >> THEN 0 ELSE Kept[1].frame.BitRate)
    /\ isVBR <=> \E i \in 1..Len(Kept) : Kept[i].frame.BitRate # Kept[1].frame.BitRate

C3_Witness ==
    /\ isVBR
    /\ \E i, j \in 1..Len(Kept) :
         /\ i < j
         /\ Kept[i].frame.BitRate # Kept[1].frame.BitRate
         /\ Kept[j].frame.BitRate = Kept[1].frame.BitRate

\* C4 as stated: when the pass ends the two counters equal the number of
\* frames and of bytes written, whatever the size of the inputs (the exact
\* counts are kept in three 16-bit limbs, the highest being the overflow).
C4_TotalsExact ==
    pc = "counted" =>
        /\ written[1] = 0
        /\ totalBytes = Low32(written)
        /\ nwritten[1] = 0
        /\ totalFrames = Low32(nwritten)

\* C4 amended: the two counters equal the number of frames and of bytes
\* written modulo 2^32.
C4_TotalsMod32 ==
    /\ totalBytes = Low32(written)
    /\ totalFrames = Low32(nwritten)

C4_Witness ==
    /\ pc = "counted"
    /\ written[1] > 0
    /\ isVBR

\* C5 as stated: with isVBR set at the end of the pass (and no I/O failure)
\* the VBR-header step completes, and leaves the Xing frame built for the
\* kept frames followed by the whole output of the pass.
C5_XingStepCompletes ==
    (isVBR /\ faults = << >>) =>
        /\ exitAt \notin XingSteps
        /\ (pc = "tagstep" =>
              /\ steps = << "xing" >>
              /\ fs[outpath] = ExpectedXing \o passOut)

\* C6: the tag step never precedes the VBR-header step, and when both have
\* run (and no --set-meta tags are applied) the final file is the tag's
\* bytes, then the Xing frame, then the kept frames.
C6_TagThenXingThenAudio ==
    /\ \A i, j \in 1..Len(steps) : i < j => ~(steps[i] = "tag" /\ steps[j] = "xing")
    /\ (pc \in XingSteps) => steps = << >>
    /\ (pc = "done" /\ isVBR /\ ~tags /\ faults = << >>
          /\ tagpath # "" /\ NextObject(fs0[tagpath], Len(fs0[tagpath]), 0).kind = "id3v2")
         => /\ steps = << "xing", "tag" >>
            /\ fs[outpath] = DeclaredTag(fs0[tagpath]) \o ExpectedXing \o RawOf(Kept)

C6_Witness ==
    /\ pc = "done"
    /\ isVBR
    /\ ~tags
    /\ faults = << >>
    /\ steps = << "xing", "tag" >>

\* C7 as stated: all through a rewrite, and wherever it stops, the output
\* path holds the complete content from before the rewrite or the complete
\* content after it.
C7_AtomicReplace ==
    (pc \in XingSteps \cup TagSteps \/ exitAt \in XingSteps \cup TagSteps) =>
        /\ Exists(outpath)
        /\ fs[outpath] \in {before, prefix \o before}

\* C8 as stated: after any failed I/O operation the program has stopped.
C8_IOFailureFatal ==
    faults # << >> => pc \in {"exit1", "panic"}

\* C9 as stated: a rewrite that stops while creating or writing its temporary
\* file leaves at the output path the output of the concatenation pass, as
\* it was before any finalizer step.
C9_PreFinalizationKept ==
    exitAt \in (XingSteps \cup TagSteps) \ {"xing_remove", "xing_rename",
                                            "tag_remove", "tag_rename"}
        => /\ pc \in {"exit1", "panic"}
           /\ Exists(outpath)
           /\ fs[outpath] = passOut

\* C9 amended: a rewrite that stops before its remove and rename leaves the
\* output file as it was when that rewrite began (the output of the pass for
\* the VBR-header step; the file the steps before it left for the tag step);
\* a failed rename stops the program, with no retry, the output path empty
\* and the rewritten file at the temporary path.
C9_FailedRewriteKeepsOutput ==
    /\ exitAt \in (XingSteps \cup TagSteps) \ {"xing_remove", "xing_rename",
                                               "tag_remove", "tag_rename"}
         => /\ pc \in {"exit1", "panic"}
            /\ Exists(outpath)
            /\ fs[outpath] = before
            /\ steps = << >> => before = passOut
            /\ steps = << "xing" >> => before = ExpectedXing \o passOut
    /\ exitAt \in {"xing_rename", "tag_rename"}
         => /\ pc = "exit1"
            /\ ~Exists(outpath)
            /\ fs[outpath \o ".mp3cat.tmp"] = prefix \o before

C9_Witness ==
    /\ pc = "exit1"
    /\ exitAt = "tag_copy"
    /\ steps = << "xing" >>
    /\ fs[outpath] # passOut

\* C10: when the output path is in the input list, merge stops with an
\* error and the file system is as it was: nothing was created or written.
C10_CollisionRejected ==
    (pc # "main" /\ \E i \in 1..Len(files) : files[i] = outpath) =>
        /\ pc \in {"merge", "exit1"}
        /\ pc = "exit1" => exitAt \in {"main", "merge"}
        /\ fs = fs0

C10_Witness ==
    /\ pc = "exit1"
    /\ exitAt = "merge"
    /\ force
    /\ Len(files) = 2
    /\ files[1] # outpath
    /\ files[2] = outpath

\* C11: a --copy-meta index below 1 or above the number of input files stops
\* the program in main, with the file system untouched and no input read; an
\* index within 1..number of files does not stop a command line that is
\* valid otherwise, and the tag source is then that file of the list given.
C11_CopyMetaRange ==
    LET n == cmdline.copyMeta
        count == Len(cmdline.args)
        list == IF cmdline.spacer = "" THEN cmdline.args
                ELSE interlace(cmdline.args, cmdline.spacer)
    IN  (pc # "main" /\ n # -1) =>
          /\ (n < 1 \/ n > count) =>
                /\ pc = "exit1"
                /\ exitAt = "main"
                /\ fs = fs0
                /\ yielded = << >>
          /\ (1 <= n /\ n <= count /\ cmdline.setMeta # "malformed"
                /\ \A i \in 1..Len(list) : list[i] \in DOMAIN fs0) =>
                /\ exitAt # "main"
                /\ tagpath = cmdline.args[n]

C11_Witness ==
    /\ pc = "exit1"
    /\ exitAt = "main"
    /\ cmdline.copyMeta = Len(cmdline.args) + 1
    /\ Len(cmdline.args) = 2
    /\ cmdline.setMeta = "none"
    /\ \A i \in 1..2 : cmdline.args[i] \in DOMAIN fs0

\* C12: when the output path exists at the start and --force is not set, the
\* program stops with an error before it creates the output or reads an
\* input, and the file system, the existing file included, is unchanged.
C12_NoOverwriteWithoutForce ==
    (pc # "main" /\ outpath \in DOMAIN fs0 /\ ~force) =>
        /\ pc \in {"merge", "exit1"}
        /\ pc = "exit1" => exitAt \in {"main", "merge"}
        /\ fs = fs0
        /\ yielded = << >>

C12_Witness ==
    /\ pc = "exit1"
    /\ exitAt = "merge"
    /\ ~force
    /\ outpath \in DOMAIN fs0
    /\ \A i \in 1..Len(files) : files[i] # outpath

(***************************************************************************)
(* The scanner: what a stream was made of, and what was read from it.      *)
(***************************************************************************)
RECURSIVE PartsLength(_)
PartsLength(list) ==
    IF list = << >> THEN 0 ELSE Len(Head(list).bytes) + PartsLength(Tail(list))

\* The offset of part i in the stream as composed.
PartStart(i) == PartsLength(SubSeq(parts, 1, i - 1))

Truncated == Len(stream) < PartsLength(parts)

\* The bytes of each object read, in order.
Got ==
    [i \in 1..Len(objects) |->
        IF objects[i].kind = "frame" THEN objects[i].frame.RawBytes
        ELSE objects[i].RawBytes]

BytesOf(list) == [i \in 1..Len(list) |-> list[i].bytes]

\* A 4-byte window in which the scanner sees the beginning of an object.
Recognised(w) ==
    \/ w[1] = 84 /\ w[2] = 65 /\ w[3] = 71
    \/ w[1] = 73 /\ w[2] = 68 /\ w[3] = 51
    \/ w[1] = 255 /\ w[2] >= 224 /\ parseHeader(w).ok

\* No 4-byte window that begins inside a piece of garbage is recognised.
InertGarbage ==
    \A i \in 1..Len(parts) :
        parts[i].kind = "garbage" =>
            \A k \in PartStart(i)..(PartStart(i) + Len(parts[i].bytes) - 1) :
                k + 4 <= Len(stream) => ~Recognised(Slice(stream, k, k + 4))

\* The stream is frames with garbage between them, and nothing else.
FramesAndGarbageBetween ==
    /\ parts # << >>
    /\ \A i \in 1..Len(parts) : parts[i].kind \in {"frame", "garbage"}
    /\ parts[1].kind = "frame"
    /\ parts[Len(parts)].kind = "frame"
    /\ ~Truncated

\* C13 as stated: NextFrame, called until it returns nil on a stream of
\* frames with any garbage between them, returns exactly the frames, in
\* order and byte for byte.
C13_ResyncAnyGarbage ==
    (pc = "frames_done" /\ FramesAndGarbageBetween) =>
        Got = BytesOf(Pieces({"frame"}))

\* C13 amended: it does so when no four consecutive bytes that begin inside
\* the garbage start with "TAG" or "ID3" or are a frame header the decoder
\* accepts (the stream may also hold whole tags, which NextFrame skips).
C13_ResyncInertGarbage ==
    (pc = "frames_done" /\ ~Truncated /\ InertGarbage) =>
        Got = BytesOf(Pieces({"frame"}))

C13_Witness ==
    /\ pc = "frames_done"
    /\ FramesAndGarbageBetween
    /\ InertGarbage
    /\ Len(Pieces({"garbage"})) = 2
    /\ Len(objects) = 2
    /\ \E i \in 1..Len(parts) : parts[i].bytes = <<255, 224, 0>>

\* The length an object declares: FrameLength, 128, or 10 and the four size
\* bytes of the ID3v2 header.
DeclaredLength(obj) ==
    CASE obj.kind = "frame" -> obj.frame.FrameLength
      [] obj.kind = "id3v1" -> 128
      [] obj.kind = "id3v2" ->
            10 + obj.RawBytes[7] * 2097152 + obj.RawBytes[8] * 16384
               + obj.RawBytes[9] * 128 + obj.RawBytes[10]

\* The parts that lie wholly inside the stream.
WholeParts ==
    SelectSeq([i \in 1..Len(parts) |->
                  [kind |-> parts[i].kind, bytes |-> parts[i].bytes,
                   whole |-> PartStart(i) + Len(parts[i].bytes) <= Len(stream)]],
              LAMBDA x : x.whole)

\* C14: every object NextObject or NextFrame returned is the bytes of the
\* stream in full, as long as it declares; and on a stream of whole frames
\* and tags whose end was cut off, NextObject returns the objects that are
\* wholly there and then nil: the cut object is dropped.
C14_NoPartialObject ==
    /\ \A i \in 1..Len(objects) :
         /\ Len(Got[i]) = DeclaredLength(objects[i])
         /\ objects[i].pos <= Len(stream)
         /\ Got[i] = Slice(stream, objects[i].pos - Len(Got[i]), objects[i].pos)
    /\ (pc = "objects_done" /\ Pieces({"garbage"}) = << >>) =>
         /\ Got = BytesOf(WholeParts)
         /\ inpos = Len(stream)

C14_Witness ==
    /\ pc = "objects_done"
    /\ Pieces({"garbage"}) = << >>
    /\ Len(parts) = 2
    /\ Len(objects) = 1
    /\ Truncated
    /\ Len(stream) - Len(Got[1]) >= 4

(***************************************************************************)
(* The header decoder: the fields of the window, read bit by bit, and the  *)
(* tables of the specification.                                            *)
(***************************************************************************)
VersionBits == (stream[2] \div 8) % 4
LayerBits == (stream[2] \div 2) % 4
BitRateIndex == stream[3] \div 16
SamplingRateIndex == (stream[3] \div 4) % 4
PaddingBitSet == (stream[3] \div 2) % 2 = 1
EmphasisBits == stream[4] % 4

\* Version bits 11 are MPEG1, 10 MPEG2, 00 MPEG2.5; layer bits 11 are
\* Layer I, 10 Layer II, 01 Layer III.
RefKbps ==
    IF VersionBits = 3
    THEN CASE LayerBits = 3 ->
                <<32, 64, 96, 128, 160, 192, 224, 256, 288, 320, 352, 384, 416, 448>>
           [] LayerBits = 2 ->
                <<32, 48, 56, 64, 80, 96, 112, 128, 160, 192, 224, 256, 320, 384>>
           [] LayerBits = 1 ->
                <<32, 40, 48, 56, 64, 80, 96, 112, 128, 160, 192, 224, 256, 320>>
    ELSE CASE LayerBits = 3 ->
                <<32, 48, 56, 64, 80, 96, 112, 128, 144, 160, 176, 192, 224, 256>>
           [] LayerBits \in {1, 2} ->
                <<8, 16, 24, 32, 40, 48, 56, 64, 80, 96, 112, 128, 144, 160>>

RefHz ==
    CASE VersionBits = 3 -> <<44100, 48000, 32000>>
      [] VersionBits = 2 -> <<22050, 24000, 16000>>
      [] VersionBits = 0 -> <<11025, 12000, 8000>>

RefSamples ==
    CASE LayerBits = 3 -> 384
      [] LayerBits = 2 -> 1152
      [] LayerBits = 1 -> (IF VersionBits = 3 THEN 1152 ELSE 576)

RefPadding == IF ~PaddingBitSet THEN 0 ELSE IF LayerBits = 3 THEN 4 ELSE 1

\* Known frame lengths: MPEG1 Layer III 128 kbps 44100 Hz without and with
\* padding, MPEG1 Layer II 160 kbps, MPEG1 Layer I 288 kbps without and with
\* padding, MPEG2 and MPEG2.5 Layer III 8 kbps, MPEG2.5 Layer III 160 kbps.
ReferenceLengths ==
    { << <<255, 251, 144, 0>>, 417 >>, << <<255, 251, 146, 0>>, 418 >>,
      << <<255, 253, 144, 0>>, 522 >>, << <<255, 255, 144, 0>>, 313 >>,
      << <<255, 255, 146, 0>>, 317 >>, << <<255, 243, 20, 192>>, 24 >>,
      << <<255, 227, 20, 192>>, 48 >>, << <<255, 227, 232, 192>>, 1440 >> }

Decoded == pc = "decoded" /\ objects[1].ok

\* C15 as stated: a window is decoded as a frame exactly when it has the
\* sync bits and its version and layer are not reserved, its bit-rate index
\* is not 0 or 15, its sampling-rate index is not 3 and its emphasis is not
\* 2, whatever its other bits.
C15_AcceptedHeaders ==
    pc = "decoded" =>
        (objects[1].ok <=>
            /\ stream[1] = 255
            /\ stream[2] \div 32 = 7
            /\ VersionBits # 1
            /\ LayerBits # 0
            /\ BitRateIndex \notin {0, 15}
            /\ SamplingRateIndex # 3
            /\ EmphasisBits # 2)

\* C16: the frame length of an accepted header is (samples / 8) * bit rate
\* / sampling rate + padding, in integers and in that order, with the
\* samples, rates and padding of the specification, and is the length the
\* reference gives for the headers it lists.
C16_FrameLengthFormula ==
    Decoded =>
        /\ objects[1].SampleCount = RefSamples
        /\ objects[1].SamplingRate = RefHz[SamplingRateIndex + 1]
        /\ objects[1].FrameLength =
              ((RefSamples \div 8) * (RefKbps[BitRateIndex] * 1000))
                 \div RefHz[SamplingRateIndex + 1] + RefPadding
        /\ \A ref \in ReferenceLengths :
              stream = ref[1] => objects[1].FrameLength = ref[2]

C16_Witness ==
    /\ Decoded
    /\ stream = <<255, 227, 232, 192>>
    /\ objects[1].FrameLength = 1440

\* C17: the bit rate of an accepted header is 1000 times the entry of the
\* specification's table for its version group and layer; MPEG2 and MPEG2.5
\* read the same tables, and Layers II and III of them the same one.
C17_BitRateTables ==
    Decoded =>
        /\ BitRateIndex \in 1..14
        /\ objects[1].BitRate = 1000 * RefKbps[BitRateIndex]

C17_Witness ==
    /\ Decoded
    /\ VersionBits = 0
    /\ LayerBits = 2
    /\ BitRateIndex = 14
    /\ objects[1].BitRate = 160000

(***************************************************************************)
(* The VBR-header functions: the offset the specification gives for the    *)
(* frame of the stream, from the bits of its header.                       *)
(***************************************************************************)
\* Channel bits 11 are mono.
RefSideInfo ==
    IF LayerBits # 1 THEN 0
    ELSE IF VersionBits = 3 THEN (IF stream[4] \div 64 = 3 THEN 17 ELSE 32)
    ELSE (IF stream[4] \div 64 = 3 THEN 9 ELSE 17)

RefOffset == 4 + RefSideInfo

\* The stream holds the bytes sig at the 0-based offset.
HasAt(offset, sig) ==
    /\ offset + 4 <= Len(stream)
    /\ Slice(stream, offset, offset + 4) = sig

\* C18: IsXingHeader is true exactly when the frame holds "Xing" or "Info"
\* at offset 4 + side-information size (17 or 32 for MPEG1 Layer III mono or
\* not, 9 or 17 for MPEG2/2.5 Layer III, 0 for Layers I and II), and
\* IsVbriHeader exactly when it holds "VBRI" at offset 36.
C18_SignatureOffsets ==
    pc = "classified" =>
        /\ objects[2].xing = "true" <=>
              \/ HasAt(RefOffset, <<88, 105, 110, 103>>)
              \/ HasAt(RefOffset, <<73, 110, 102, 111>>)
        /\ objects[2].vbri = "true" <=> HasAt(36, <<86, 66, 82, 73>>)

C18_Witness ==
    /\ pc = "classified"
    /\ RefSideInfo = 9
    /\ HasAt(13, <<73, 110, 102, 111>>)
    /\ objects[2].xing = "true"
    /\ objects[2].vbri = "false"

\* C19 as stated: both functions return a boolean for every frame the
\* scanner yields, and false for a frame too short to hold the signature.
C19_ShortFramesNotVbr ==
    pc = "classified" =>
        /\ objects[2].xing \in {"true", "false"}
        /\ objects[2].vbri \in {"true", "false"}
        /\ Len(stream) < RefOffset + 4 => objects[2].xing = "false"
        /\ Len(stream) < 40 => objects[2].vbri = "false"

\* C20 as stated: for every template the scanner yields NewXingHeader
\* returns a frame of the template's length with the template's header,
\* "Xing" at the offset, 3 at offset + 7, the totals big-endian at offset
\* + 8 and offset + 12, and zeros elsewhere.
C20_XingFrameLayout ==
    pc = "synthesized" =>
        /\ objects[2].xingHeader.ok
        /\ LET raw == objects[2].xingHeader.frame.RawBytes
               o == RefOffset
               tf == objects[2].totalFrames
               tb == objects[2].totalBytes
           IN  /\ Len(raw) = Len(stream)
               /\ Slice(raw, 0, 4) = Slice(stream, 0, 4)
               /\ Slice(raw, o, o + 4) = <<88, 105, 110, 103>>
               /\ raw[o + 7 + 1] = 3
               /\ Slice(raw, o + 8, o + 12) =
                     << tf[1] \div 256, tf[1] % 256, tf[2] \div 256, tf[2] % 256 >>
               /\ Slice(raw, o + 12, o + 16) =
                     << tb[1] \div 256, tb[1] % 256, tb[2] \div 256, tb[2] % 256 >>
               /\ \A i \in 1..Len(raw) :
                     ((i > 4 /\ (i <= o \/ i > o + 16)) \/ i \in {o + 5, o + 6, o + 7})
                        => raw[i] = 0
        /\ objects[1].RawBytes = stream

(***************************************************************************)
(* The program as a whole: what a run leaves in the file system.           *)
(***************************************************************************)
\* The file does not begin with an ID3v2 tag the scanner returns whole.
NoTagIn(data) == NextObject(data, Len(data), 0).kind # "id3v2"

\* C21: when the tag source is opened and yields no ID3v2 tag, the tag step
\* changes no file (the output stays as it is and no temporary file is
\* created) and does not stop the program: merge goes on to its next step.
C21_NoTagNoOp ==
    [][(pc = "tag_read" /\ Exists(tagpath) /\ NoTagIn(fs[tagpath]) /\ faults' = faults)
          => (fs' = fs /\ pc' = "metastep" /\ exitAt' = exitAt)]_vars

C21_Witness ==
    /\ pc = "done"
    /\ tagpath # ""
    /\ NoTagIn(fs0[tagpath])
    /\ faults = << >>
    /\ steps = << >>
    /\ passOut # << >>
    /\ fs[outpath] = passOut
    /\ ~Exists(outpath \o ".mp3cat.tmp")

(***************************************************************************)
(* The ID3v2 tag of a stream that begins with an ID3v2 header.             *)
(***************************************************************************)
\* The four size bytes of the stream's header.
SizeByte(k) == stream[6 + k]

\* The size the low 7 bits of the four size bytes encode.
SynchsafeSize ==
    (SizeByte(1) % 128) * 2097152 + (SizeByte(2) % 128) * 16384
       + (SizeByte(3) % 128) * 128 + (SizeByte(4) % 128)

\* The tag returned is bytes [0, 10 + size) of the stream, and the scanner
\* has consumed exactly these.
TagIsPrefix(size) ==
    /\ Len(objects[1].RawBytes) = 10 + size
    /\ objects[1].RawBytes = Slice(stream, 0, 10 + size)
    /\ objects[1].pos = 10 + size
    /\ Len(objects) = 2 => objects[2].pos >= 10 + size + 4

\* C22 as stated: whatever the four size bytes, the tag returned has 10 + S
\* bytes, S taken from the low 7 bits of each size byte.
C22_TagDeclaredSize ==
    (objects # << >> /\ objects[1].kind = "id3v2") => TagIsPrefix(SynchsafeSize)

\* C22 amended: when each size byte is below 128, a tag is returned exactly
\* when the stream holds 10 + S bytes, it is bytes [0, 10 + S) of the
\* stream, and the scanner continues at byte 10 + S.
C22_TagSynchsafeSize ==
    (objects # << >> /\ \A k \in 1..4 : SizeByte(k) < 128) =>
        /\ objects[1].kind = "id3v2" <=> 10 + SynchsafeSize <= Len(stream)
        /\ objects[1].kind = "id3v2" => TagIsPrefix(SynchsafeSize)

C22_Witness ==
    /\ pc = "tagnext"
    /\ SizeByte(2) = 1
    /\ SizeByte(3) = 2
    /\ SizeByte(4) = 127
    /\ objects[1].kind = "id3v2"
    /\ Len(objects[1].RawBytes) = 10 + 16384 + 256 + 127
    /\ objects[2].kind = "frame"

(***************************************************************************)
(* The concatenation pass over a list and over its parts.                  *)
(***************************************************************************)
\* The frames merge must keep of the files of a list, in order.
RECURSIVE RetainedOfList(_)
RetainedOfList(list) ==
    IF list = << >> THEN << >>
    ELSE RetainedOf(fs0[Head(list)]) \o RetainedOfList(Tail(list))

\* Every frame the file keeps has the same bit rate.
ConstantBitRate(path) ==
    \A i, j \in 1..Len(RetainedOf(fs0[path])) :
        RetainedOf(fs0[path])[i].BitRate = RetainedOf(fs0[path])[j].BitRate

\* C23: at the end of the pass over L1 ++ L2 the output is the output for
\* L1 followed by the output for L2 and the two totals are the sums of the
\* totals for L1 and for L2, for every way of splitting the list; for the
\* list [A, A] with A of one bit rate the output has twice the frames and
\* twice the bytes of the output for [A], and isVBR is false.
C23_PassAdditive ==
    (pc = "finalize" /\ faults = << >>) =>
        /\ \A k \in 0..Len(files) :
             LET L1 == SubSeq(files, 1, k)
                 L2 == SubSeq(files, k + 1, Len(files))
             IN  /\ fs[outpath] = ExpectedOutput(L1) \o ExpectedOutput(L2)
                 /\ totalFrames = U32(Len(RetainedOfList(L1)) + Len(RetainedOfList(L2)))
                 /\ totalBytes = U32(Len(ExpectedOutput(L1)) + Len(ExpectedOutput(L2)))
        /\ (Len(files) = 2 /\ files[1] = files[2] /\ ConstantBitRate(files[1])) =>
             /\ ~isVBR
             /\ Len(Kept) = 2 * Len(RetainedOf(fs0[files[1]]))
             /\ Len(fs[outpath]) = 2 * Len(ExpectedOutput(<< files[1] >>))
             /\ fs[outpath] = ExpectedOutput(<< files[1] >>) \o ExpectedOutput(<< files[1] >>)

C23_Witness ==
    /\ pc = "finalize"
    /\ faults = << >>
    /\ Len(files) = 2
    /\ files[1] = files[2]
    /\ ConstantBitRate(files[1])
    /\ Len(Kept) = 4
    /\ Len(yielded) = 6
    /\ ~isVBR

(***************************************************************************)
(* Runs without a rewrite.                                                 *)
(***************************************************************************)
\* Every frame kept so far has the same bit rate.
SameBitRate(entries) ==
    \A i, j \in 1..Len(entries) : entries[i].frame.BitRate = entries[j].frame.BitRate

\* The temporary path holds what it held when the program started.
TmpUntouched ==
    LET tmp == outpath \o ".mp3cat.tmp"
    IN  /\ tmp \in DOMAIN fs <=> tmp \in DOMAIN fs0
        /\ tmp \in DOMAIN fs => fs[tmp] = fs0[tmp]

\* C24: as long as the frames kept have one bit rate, and neither a tag
\* transplant nor --set-meta is requested, no rewrite step is taken and no
\* temporary file is created; at the end the output file is the output of
\* the pass: the frames kept and nothing else, its length the sum of theirs.
C24_NoRewriteWhenCbr ==
    (pc # "main" /\ SameBitRate(Kept) /\ tagpath = "" /\ ~tags) =>
        /\ TmpUntouched
        /\ steps = << >>
        /\ pc \notin XingSteps \cup TagSteps \cup {"tag_read"}
        /\ pc = "done" =>
             /\ fs[outpath] = passOut
             /\ fs[outpath] = RawOf(Kept)
             /\ Len(fs[outpath]) = SumLen(Kept)
             /\ faults = << >> => fs[outpath] = ExpectedOutput(files)

C24_Witness ==
    /\ pc = "done"
    /\ tagpath = ""
    /\ ~tags
    /\ faults = << >>
    /\ Len(files) = 2
    /\ files[1] # files[2]
    /\ Len(Kept) = 4
    /\ SameBitRate(Kept)
    /\ Len(fs[outpath]) < Len(fs0[files[1]]) + Len(fs0[files[2]]) - 48

(***************************************************************************)
(* The temporary file after a run.                                         *)
(***************************************************************************)
\* A rewrite has been completed.
Rewritten == \E i \in 1..Len(steps) : steps[i] \in {"xing", "tag"}

\* C25 as stated: after every run that ends well no file exists at the
\* output path + ".mp3cat.tmp" (runs without a failed I/O operation).
C25_NoTmpAfterRun ==
    (pc = "done" /\ faults = << >>) => outpath \o ".mp3cat.tmp" \notin DOMAIN fs

\* C25 amended: once a rewrite has been completed, and until the next one
\* creates its own, no file exists at the temporary path; a run that ends
\* well without a rewrite leaves the temporary path as it found it.
C25_NoTmpLeftByRewrite ==
    /\ (Rewritten /\ pc \in {"tagstep", "tag_read", "metastep", "done"})
          => outpath \o ".mp3cat.tmp" \notin DOMAIN fs
    /\ (pc = "done" /\ ~Rewritten) => TmpUntouched

C25_Witness ==
    /\ pc = "done"
    /\ steps = << "xing", "tag" >>
    /\ outpath \o ".mp3cat.tmp" \in DOMAIN fs0
    /\ outpath \o ".mp3cat.tmp" \notin DOMAIN fs
    /\ faults = << >>

(***************************************************************************)
(* The command-line parser: a condensed block and its separate form.       *)
(***************************************************************************)
\* The shortcuts of the block and the arguments after it.
BlockOf == Tail(stream[1])
ValuesOf == Tail(stream)

\* The number of shortcuts that take an argument among the first k.
TakingUpTo(k) == Cardinality({j \in 1..k : BlockOf[j] \in {"s", "i", "f"}})

\* The shortcut c is in the block; the argument its last occurrence takes.
InBlock(c) == \E k \in 1..Len(BlockOf) : BlockOf[k] = c
LastOf(c) == CHOOSE k \in 1..Len(BlockOf) :
                 BlockOf[k] = c /\ \A j \in (k + 1)..Len(BlockOf) : BlockOf[j] # c
TakenBy(c) == ValuesOf[TakingUpTo(LastOf(c))]

\* The arguments the block leaves in the stream.
LeftOver == SubSeq(ValuesOf, TakingUpTo(Len(BlockOf)) + 1, Len(ValuesOf))

\* What the arguments used stand for as an integer and as a float (in
\* thousandths); the others are no numbers.
RefInt == (<<"2", "0", "2">> :> 202)
RefFloat == (<<"2", "0", "2">> :> 202000) @@ (<<"2", ".", "2">> :> 2200)
            @@ (<<"0", "8">> :> 8000)

\* The stream holds an argument for every shortcut of the block that takes one.
EnoughArguments == TakingUpTo(Len(BlockOf)) <= Len(ValuesOf)

PassProgress ==
    [][(pc = "frame" /\ pc' = "frame") => inpos' >= inpos + 4]_vars

\* C27 as stated: a run that passed the collision check and met no I/O
\* failure does not stop inside the concatenation pass: the loop over the
\* inputs runs to its end.
C27_PassReachesEnd ==
    faults = << >> => exitAt \notin {"open", "frame"}

(***************************************************************************)
(* C28: the smallest frame and the bit rates of accepted headers.          *)
(***************************************************************************)
\* C28: every header parseHeader accepts has a bit rate above 0, which is
\* not merge's "not yet set" value of firstBitRate, and a frame length of
\* at least 24 bytes, so the 4 header bytes fit into RawBytes.
C28_AcceptedHeaderBounds ==
    Decoded =>
        /\ objects[1].BitRate > 0
        /\ objects[1].FrameLength >= 24

\* The smallest frame: MPEG2 Layer III, 8 kbps at 24000 Hz, no padding.
C28_Witness ==
    /\ Decoded
    /\ stream = <<255, 243, 20, 0>>
    /\ objects[1].BitRate = 8000
    /\ objects[1].FrameLength = 24

(***************************************************************************)
(* C29: the input files are left alone.                                    *)
(***************************************************************************)
\* C29 as stated: in a run whose input list does not hold the output path,
\* every input file (the tag source is one of them) is at every step what
\* it was when the program started.
C29_InputsUntouched ==
    (\A i \in 1..Len(files) : files[i] # outpath) =>
        \A i \in 1..Len(files) :
            files[i] \in DOMAIN fs0 =>
                /\ files[i] \in DOMAIN fs
                /\ fs[files[i]] = fs0[files[i]]

(***************************************************************************)
(* C30: a missing input stops the program before merge.                    *)
(***************************************************************************)
\* The command line was well formed: main reached validateFiles, with the
\* interlaced list in files.
ReachedValidation ==
    /\ pc # "main"
    /\ cmdline.args # << >>
    /\ cmdline.setMeta # "malformed"
    /\ cmdline.copyMeta \in {-1} \cup (1..Len(cmdline.args))

\* A path of the final list at which no file existed.
MissingInput == \E i \in 1..Len(files) : files[i] \notin DOMAIN fs0

\* C30: when a path of the final list (the spacer included) does not exist,
\* the program has exited with an error at main, merge never ran, and the
\* file system is what it was: an existing output file is kept even with
\* --force.
C30_MissingInputStopsMain ==
    (ReachedValidation /\ MissingInput) =>
        /\ pc = "exit1"
        /\ exitAt = "main"
        /\ fs = fs0

\* --force, an existing output file and a missing spacer between two
\* existing inputs.
C30_Witness ==
    /\ ReachedValidation
    /\ MissingInput
    /\ force
    /\ PathOut \in DOMAIN fs0
    /\ cmdline.spacer = PathNone
    /\ files = << PathA, PathNone, PathB >>
    /\ fs[PathOut] = DataOld

=============================================================================
